---- MODULE Spec2Model ----
(***************************************************************************)
(* A model of the rib engine of ribmaker-app (engine/ribEngine.ts, the     *)
(* App component that owns its inputs, and the panels that call it).       *)
(*                                                                         *)
(* Numbers.  The engine computes with JavaScript doubles.  The model       *)
(* computes with exact rationals [n |-> numerator, d |-> denominator] in   *)
(* lowest terms with d > 0; NaN (0/0) is the record with d = 0 and is      *)
(* absorbing, as in IEEE arithmetic.  A division x/0 with x # 0 gives an   *)
(* infinity in JavaScript; the parameter sets of this model never produce  *)
(* one.  Angles are measured in turns (1 turn = 2*pi radians), so that     *)
(* t*frequency*2*pi + ribIndex*phase*2*pi is the rational                  *)
(* t*frequency + ribIndex*phase.                                           *)
(***************************************************************************)
EXTENDS Integers, Sequences, FiniteSets, TLC

VARIABLES
    params,             \* App: useState<RibParams>
    installationMode,   \* App: useState<InstallationMode>
    imageScale,         \* App: useState(1.0)
    ledEnabled,         \* App: useState(false)
    ribProfiles,        \* App: useState<RibProfile[]>, set by onRibProfilesGenerated
    ceilingProfilesArr, \* the ceiling segments of the last generation pass
    imageData,          \* ribEngine: let imageData
    imageCanvas,        \* ribEngine: let imageCanvas
    imageCtx,           \* ribEngine: let imageCtx
    callParams,         \* history: the params object as it was handed to the last call
    dxf,                \* the document returned by the last exportDXF
    csv,                \* the report returned by the last exportCSV
    pricing,            \* the PricingResult returned by the last calculatePricing
    priced,             \* history: the first PricingResult returned for each argument triple
    loads,              \* the promises loadImageData / loadImageFromUrl have returned
    sampled,            \* the last sampleImageBrightness call: arguments and result
    showAdvanced,       \* App: useState(false), whether the ControlPanel is mounted
    imagePreviewSrc,    \* ControlPanel: useState<string | null>(null)
    input,              \* ChatPanel: useState(''), the text in the chat box
    loading,            \* ChatPanel: useState(false)
    requests,           \* ChatPanel: the sendMessage calls that passed their guards
    apiKey,             \* ChatPanel: the Anthropic key the user entered, '' if none
    serverHasAnthropicKey, \* ChatPanel: useState(false), set from /api/config
    server,             \* which implementation serves /api/chat and /api/config
    env,                \* the server's process.env
    httpReq,            \* req: the HTTP request the chat endpoint has received
    httpRes,            \* res: the response the chat endpoint has sent
    modelCalls,         \* the keys client.messages.create was called with
    pendingAtClear,     \* history: the loads in progress at the last clearImageData()
    op                  \* the operation that produced this state

vars == <<params, installationMode, imageScale, ledEnabled, ribProfiles,
          ceilingProfilesArr, imageData, imageCanvas, imageCtx, callParams,
          dxf, csv, pricing, priced, loads, sampled, showAdvanced,
          imagePreviewSrc, input, loading, requests, apiKey,
          serverHasAnthropicKey, server, env, httpReq, httpRes, modelCalls,
          pendingAtClear, op>>

\* the state of the chat panel and the control panel
panelVars == <<showAdvanced, imagePreviewSrc, input, loading, requests, apiKey,
               serverHasAnthropicKey>>

\* the state of the server
serverVars == <<server, env, httpReq, httpRes, modelCalls>>

\* null: a record no image, canvas, document or result equals
NULL == [null |-> TRUE]

\* the panels as their useState initial values leave them
PanelsAtLoad ==
    /\ showAdvanced = FALSE
    /\ imagePreviewSrc = NULL
    /\ input = ""
    /\ loading = FALSE
    /\ requests = << >>
    /\ apiKey = ""
    /\ serverHasAnthropicKey = FALSE

\* the calls of loadImageData / loadImageFromUrl whose image is still to come
inProgress(ls) == {i \in 1..Len(ls) : ls[i].stage \in {"reading", "decoding"}}

\* no server in the picture: the engine and the panels on their own
NoServer ==
    /\ server = NULL
    /\ env = NULL
    /\ httpReq = NULL
    /\ httpRes = NULL
    /\ modelCalls = << >>

-----------------------------------------------------------------------------
(* JavaScript numbers as rationals *)

NaN == [n |-> 0, d |-> 0]

\* what a call leaves when reading a property of undefined raises
TypeError == [threw |-> "TypeError"]

Abs(x) == IF x < 0 THEN -x ELSE x

RECURSIVE GCD(_, _)
GCD(a, b) == IF b = 0 THEN a ELSE GCD(b, a % b)

R(n, d) ==
    IF d = 0 THEN NaN
    ELSE LET g == GCD(Abs(n), Abs(d))
             s == IF d < 0 THEN -1 ELSE 1
         IN  [n |-> (s * n) \div g, d |-> (s * d) \div g]

Num(k) == [n |-> k, d |-> 1]

isNaN(a) == a.d = 0

RAdd(a, b) ==
    IF isNaN(a) \/ isNaN(b) THEN NaN
    ELSE LET g == GCD(a.d, b.d)
             l == (a.d \div g) * b.d
         IN  R(a.n * (l \div a.d) + b.n * (l \div b.d), l)

RNeg(a) == [n |-> -a.n, d |-> a.d]

RSub(a, b) == RAdd(a, RNeg(b))

RMul(a, b) ==
    IF isNaN(a) \/ isNaN(b) THEN NaN
    ELSE LET g1 == GCD(Abs(a.n), b.d)
             g2 == GCD(Abs(b.n), a.d)
         IN  R((a.n \div g1) * (b.n \div g2), (a.d \div g2) * (b.d \div g1))

RDiv(a, b) ==
    IF isNaN(a) \/ isNaN(b) \/ b.n = 0 THEN NaN
    ELSE RMul(a, R(b.d, b.n))

\* a < b and a <= b; false when either is NaN, as in JavaScript
RLt(a, b) ==
    /\ ~isNaN(a) /\ ~isNaN(b)
    /\ LET g == GCD(a.d, b.d)
           l == (a.d \div g) * b.d
       IN  a.n * (l \div a.d) < b.n * (l \div b.d)

RLe(a, b) == ~isNaN(a) /\ ~isNaN(b) /\ ~RLt(b, a)

RMinOf(a, b) == IF isNaN(a) \/ isNaN(b) THEN NaN ELSE IF RLt(b, a) THEN b ELSE a

RMaxOf(a, b) == IF isNaN(a) \/ isNaN(b) THEN NaN ELSE IF RLt(a, b) THEN b ELSE a

\* Math.floor, Math.ceil, Math.round (halves round up), of a number that is not NaN
RFloor(a) == a.n \div a.d

RCeil(a) == -((-a.n) \div a.d)

RRound(a) == (a.n \div a.d) + (IF 2 * (a.n % a.d) >= a.d THEN 1 ELSE 0)

\* x % 1: the remainder keeps the sign of x
RMod1(a) ==
    IF isNaN(a) THEN NaN
    ELSE IF a.n >= 0 THEN RSub(a, Num(RFloor(a))) ELSE RSub(a, Num(RCeil(a)))

RECURSIVE Pow10(_)
Pow10(k) == IF k = 0 THEN 1 ELSE 10 * Pow10(k - 1)

\* the first k decimal digits of r/d (0 <= r < d) as an integer, and what is left
RECURSIVE Decimals(_, _, _, _)
Decimals(r, d, k, acc) ==
    IF k = 0 THEN [v |-> acc, r |-> r]
    ELSE Decimals((r * 10) % d, d, k - 1, acc * 10 + ((r * 10) \div d))

\* x.toFixed(k): the number the printed decimal denotes, |x| rounded to the
\* nearest multiple of 10^-k (ties to the larger) with the sign of x
toFixedOf(m, d, k, neg) ==
    LET dec == Decimals(m % d, d, k, 0)
        v   == (m \div d) * Pow10(k) + dec.v + (IF 2 * dec.r >= d THEN 1 ELSE 0)
    IN  R(IF neg THEN -v ELSE v, Pow10(k))

toFixed(a, k) ==
    IF isNaN(a) THEN NaN ELSE toFixedOf(Abs(a.n), a.d, k, a.n < 0)

\* Math.sin of an angle in turns: Bhaskara's rational approximation
\* 16p/(5 - 4p), p = 2v(1 - 2v) on the half turn v in [0, 1/2), kept to two
\* decimals (its error is below 0.002), odd and periodic as the sine is.
SinHalf(v) ==
    LET p == RMul(RMul(Num(2), v), RSub(Num(1), RMul(Num(2), v)))
    IN  toFixed(RDiv(RMul(Num(16), p), RSub(Num(5), RMul(Num(4), p))), 2)

Sin(angle) ==
    IF isNaN(angle) THEN NaN
    ELSE LET v == RSub(angle, Num(RFloor(angle)))
         IN  IF RLt(v, R(1, 2)) THEN SinHalf(v) ELSE RNeg(SinHalf(RSub(v, R(1, 2))))

\* Math.asin(Math.sin(angle)) / (Math.PI / 2): the triangle wave
AsinSin(angle) ==
    IF isNaN(angle) THEN NaN
    ELSE LET v == RSub(angle, Num(RFloor(angle)))
         IN  IF RLe(v, R(1, 4)) THEN RMul(Num(4), v)
             ELSE IF RLe(v, R(3, 4)) THEN RSub(Num(2), RMul(Num(4), v))
             ELSE RSub(RMul(Num(4), v), Num(4))

\* an array built element by element, as the finished array
Array(s) == s \o << >>

\* Array.prototype.slice(from, to) of a sequence (0-based, to exclusive)
Slice(s, from, to) ==
    LET lo == IF from < 0 THEN 0 ELSE from
        hi == IF to > Len(s) THEN Len(s) ELSE to
    IN  IF hi <= lo THEN << >> ELSE SubSeq(s, lo + 1, hi)

\* Array.prototype.filter((p) => p.y <= height)
RECURSIVE FilterUpTo(_, _)
FilterUpTo(s, height) ==
    IF s = << >> THEN << >>
    ELSE IF RLe(Head(s).y, height) THEN <<Head(s)>> \o FilterUpTo(Tail(s), height)
    ELSE FilterUpTo(Tail(s), height)

-----------------------------------------------------------------------------
(* Image sampling *)

hasImageData == imageData # NULL

\* the module-level image state the generators read, as they find it when called
engineImage ==
    [imageData |-> imageData, imageCanvas |-> imageCanvas, imageCtx |-> imageCtx]

\* a faulty variant: black where there is no image to sample
sampleImageBrightnessBlack(image, u, v, scale) == Num(0)

\* imageData.data holds 4 bytes (r, g, b, a) per pixel, row by row; the model
\* keeps one [r, g, b] record per pixel, so data[idx], data[idx+1], data[idx+2]
\* with idx = (py*width + px)*4 is pixel py*width + px.
sampleImageBrightness(image, u, v, scale) ==
    IF image.imageData = NULL \/ image.imageCanvas = NULL THEN R(1, 2)
    ELSE LET su0 == RMod1(RDiv(u, scale))
             sv0 == RMod1(RDiv(v, scale))
             su  == IF RLt(su0, Num(0)) THEN RAdd(su0, Num(1)) ELSE su0
             sv  == IF RLt(sv0, Num(0)) THEN RAdd(sv0, Num(1)) ELSE sv0
             px  == RFloor(RMul(su, Num(image.imageCanvas.width - 1)))
             py  == RFloor(RMul(RSub(Num(1), sv), Num(image.imageCanvas.height - 1)))
             pix == image.imageData.data[py * image.imageCanvas.width + px + 1]
         IN  \* a NaN index reads undefined, and the weighted sum is NaN
             IF isNaN(su) \/ isNaN(sv) THEN NaN
             ELSE R(299 * pix.r + 587 * pix.g + 114 * pix.b, 255000)

-----------------------------------------------------------------------------
(* Wave functions *)

waveFunction(t, frequency, waveType, phaseShift) ==
    LET angle == RAdd(RMul(t, frequency), phaseShift)
    IN  CASE waveType = 0 -> Sin(angle)
          [] waveType = 1 -> LET s == Sin(angle)
                             IN  RMul(s, IF RLt(s, Num(0)) THEN RNeg(s) ELSE s)
          [] waveType = 2 -> AsinSin(angle)
          [] OTHER        -> Sin(angle)

-----------------------------------------------------------------------------
(* Control point generation *)

\* a faulty variant: the wave also when an image is loaded
controlPointDepthWaveOnly(image, p, ribIndex, t, scale) ==
    RAdd(p.minDepth,
         RMul(RDiv(RAdd(waveFunction(t, p.frequency, p.waveType,
                                     RMul(Num(ribIndex), p.phase)), Num(1)), Num(2)),
              RSub(p.maxDepth, p.minDepth)))

\* the depth of one control point: from the image when one is loaded, from the
\* wave otherwise (the same statements in both generators)
controlPointDepth(image, p, ribIndex, t, scale) ==
    LET depthRange == RSub(p.maxDepth, p.minDepth)
        phaseShift == RMul(Num(ribIndex), p.phase)
    IN  IF image.imageData # NULL
        THEN LET u == IF p.count > 1 THEN R(ribIndex, p.count - 1) ELSE R(1, 2)
                 brightness == sampleImageBrightness(image, u, t, scale)
             IN  RAdd(p.minDepth, RMul(brightness, depthRange))
        ELSE LET wave == waveFunction(t, p.frequency, p.waveType, phaseShift)
             IN  RAdd(p.minDepth, RMul(RDiv(RAdd(wave, Num(1)), Num(2)), depthRange))

\* a faulty variant: t = i / controlPoints, so the last point stops short
generateControlPointsOpenEnd(image, p, ribIndex, scale) ==
    Array([k \in 1..p.controlPoints |->
        LET t == RDiv(Num(k - 1), Num(p.controlPoints))
        IN  [x |-> controlPointDepth(image, p, ribIndex, t, scale),
             y |-> RMul(t, p.height)]])

generateControlPoints(image, p, ribIndex, scale) ==
    Array([k \in 1..p.controlPoints |->
        LET t == RDiv(Num(k - 1), Num(p.controlPoints - 1))
        IN  [x |-> controlPointDepth(image, p, ribIndex, t, scale),
             y |-> RMul(t, p.height)]])

\* the loop of generateControlPointsLPath over numPts points
lPathPoints(image, p, ribIndex, totalPath, scale, numPts) ==
    Array([k \in 1..numPts |->
        LET t == RDiv(Num(k - 1), Num(numPts - 1))
        IN  [x |-> controlPointDepth(image, p, ribIndex, t, scale),
             y |-> RMul(t, totalPath)]])

generateControlPointsLPath(image, p, ribIndex, totalPath, scale) ==
    lPathPoints(image, p, ribIndex, totalPath, scale,
                RRound(RMul(Num(p.controlPoints), RDiv(totalPath, p.height))))

-----------------------------------------------------------------------------
(* Spline evaluation: THREE.SplineCurve(points).getPoints(resolution) *)

\* Interpolations.CatmullRom after "const v0 = (p2 - p0) * 0.5, v1 = (p3 - p1) * 0.5"
CatmullRomOf(t, p1, p2, v0, v1) ==
    LET t2 == RMul(t, t)
        t3 == RMul(t, t2)
        c3 == RAdd(RAdd(RSub(RMul(Num(2), p1), RMul(Num(2), p2)), v0), v1)
        c2 == RSub(RSub(RAdd(RMul(Num(-3), p1), RMul(Num(3), p2)), RMul(Num(2), v0)), v1)
    IN  RAdd(RAdd(RAdd(RMul(c3, t3), RMul(c2, t2)), RMul(v0, t)), p1)

CatmullRom(t, p0, p1, p2, p3) ==
    CatmullRomOf(t, p1, p2, RMul(RSub(p2, p0), R(1, 2)), RMul(RSub(p3, p1), R(1, 2)))

\* SplineCurve.getPoint after "const intPoint = Math.floor(p); const weight = p - intPoint"
getPointAt(points, intPoint, weight) ==
    LET len == Len(points)
        p0  == points[(IF intPoint = 0 THEN intPoint ELSE intPoint - 1) + 1]
        p1  == points[intPoint + 1]
        p2  == points[(IF intPoint > len - 2 THEN len - 1 ELSE intPoint + 1) + 1]
        p3  == points[(IF intPoint > len - 3 THEN len - 1 ELSE intPoint + 2) + 1]
    IN  [x |-> CatmullRom(weight, p0.x, p1.x, p2.x, p3.x),
         y |-> CatmullRom(weight, p0.y, p1.y, p2.y, p3.y)]

\* SplineCurve.getPoint(t), p = (points.length - 1) * t
getPointOf(points, p) == getPointAt(points, RFloor(p), RSub(p, Num(RFloor(p))))

getPoint(points, t) == getPointOf(points, RMul(Num(Len(points) - 1), t))

\* getPoint on an empty points array reads p0.x of undefined: a TypeError
evaluateSplineCurve(controlPoints, resolution) ==
    IF Len(controlPoints) = 0 THEN TypeError
    ELSE Array([k \in 1..(resolution + 1) |->
                   getPoint(controlPoints, R(k - 1, resolution))])

-----------------------------------------------------------------------------
(* Full rib generation *)

\* a faulty variant: no normalisation
normalizeDepthsSkipped(p) == p

\* a faulty variant: only maxDepth written back
normalizeDepthsMaxOnly(p) == [p EXCEPT !.maxDepth = RMaxOf(p.minDepth, p.maxDepth)]

\* params.minDepth = Math.min(...); params.maxDepth = Math.max(...): the
\* params object as generateRibProfiles leaves it
normalizeDepths(p) ==
    [p EXCEPT !.minDepth = RMinOf(p.minDepth, p.maxDepth),
              !.maxDepth = RMaxOf(p.minDepth, p.maxDepth)]

\* the corner split of one rib: the wall slice, its control points, and the
\* ceiling slice re-based to start at 0
cornerSplit(p, i, fullControlPoints, fullProfile, splitIndex) ==
    [rib |-> [index         |-> i,
              profile       |-> Slice(fullProfile, 0, splitIndex + 1),
              controlPoints |-> FilterUpTo(fullControlPoints, p.height),
              height        |-> p.height,
              thickness     |-> p.thickness],
     threw   |-> FALSE,
     ceiling |-> Array([k \in 1..(Len(fullProfile) - splitIndex) |->
                           [x |-> fullProfile[splitIndex + k].x,
                            y |-> RSub(fullProfile[splitIndex + k].y, p.height)]])]

\* the 'both' branch once fullControlPoints and fullProfile are computed;
\* fullProfile.slice(splitIndex) is written for 0 <= splitIndex <= length
bothRib(p, i, fullControlPoints, fullProfile, totalPath) ==
    cornerSplit(p, i, fullControlPoints, fullProfile,
                RRound(RMul(RDiv(p.height, totalPath), Num(Len(fullProfile)))))

bothRibOf(p, i, fullControlPoints, totalPath) ==
    IF Len(fullControlPoints) = 0
    THEN [rib |-> TypeError, ceiling |-> TypeError, threw |-> TRUE]
    ELSE bothRib(p, i, fullControlPoints,
                 evaluateSplineCurve(fullControlPoints,
                     RRound(RMul(Num(p.displayResolution),
                                 RDiv(totalPath, p.height)))),
                 totalPath)

\* the other branch once controlPts is computed
straightRib(p, i, controlPts) ==
    [rib |-> [index         |-> i,
              profile       |-> evaluateSplineCurve(controlPts, p.displayResolution),
              controlPoints |-> controlPts,
              height        |-> p.height,
              thickness     |-> p.thickness],
     threw   |-> Len(controlPts) = 0,
     ceiling |-> << >>]

\* one iteration of the loop over i, on the params object after normalisation
ribOf(image, p, mode, scale, i) ==
    IF mode = "both"
    THEN bothRibOf(p, i,
                   generateControlPointsLPath(image, p, i, RAdd(p.height, p.ceilingRun), scale),
                   RAdd(p.height, p.ceilingRun))
    ELSE straightRib(p, i, generateControlPoints(image, p, i, scale))

\* what the call returns and leaves: the two arrays, and the params object
generated(p, mode, ribs) ==
    IF \E k \in 1..Len(ribs) : ribs[k].threw
    THEN [params |-> p, threw |-> TRUE,
          ribProfiles |-> << >>, ceilingProfilesArr |-> << >>]
    ELSE [params             |-> p,
          threw              |-> FALSE,
          ribProfiles        |-> [k \in 1..Len(ribs) |-> ribs[k].rib],
          ceilingProfilesArr |-> IF mode = "both"
                                 THEN [k \in 1..Len(ribs) |-> ribs[k].ceiling]
                                 ELSE << >>]

\* a faulty variant: the loop counting from 1
ribLoopFromOne(image, p, count, mode, scale) ==
    generated(p, mode, Array([k \in 1..count |-> ribOf(image, p, mode, scale, k)]))

\* the loop "for (let i = 0; i < count; i++)" on the normalised params object
ribLoop(image, p, count, mode, scale) ==
    generated(p, mode, Array([k \in 1..count |-> ribOf(image, p, mode, scale, k - 1)]))

generateRibProfiles(image, p0, mode, scale) ==
    ribLoop(image, normalizeDepths(p0), p0.count, mode, scale)

-----------------------------------------------------------------------------
(* DXF export.  The document is the sequence of its groups "0 <e>": the     *)
(* section and table markers, and per rib the entities with their layer     *)
(* (group 8) and coordinates (groups 10/20 and 11/21) as toFixed(6) prints  *)
(* them.  The field rib is not in the document: it records which iteration  *)
(* of the forEach wrote the entity.                                         *)

RECURSIVE Flatten(_)
Flatten(ss) == IF ss = << >> THEN << >> ELSE Head(ss) \o Flatten(Tail(ss))

fix6(a) == toFixed(a, 6)

dxfHeader ==
    << [e |-> "SECTION", name |-> "HEADER"],
       [e |-> "ENDSEC"],
       [e |-> "SECTION", name |-> "TABLES"],
       [e |-> "TABLE", name |-> "LAYER"],
       [e |-> "LAYER", name |-> "CURVES"],
       [e |-> "LAYER", name |-> "LINES"],
       [e |-> "ENDTAB"],
       [e |-> "ENDSEC"],
       [e |-> "SECTION", name |-> "ENTITIES"] >>

dxfTrailer == << [e |-> "ENDSEC"], [e |-> "EOF"] >>

\* const dxfSpacing = maxDepth * 1.2
dxfSpacing(p) == RMul(p.maxDepth, R(6, 5))

\* "Bottom edge line": from the wall line to the profile's first point
bottomEdge(profile, offsetX, ribIndex) ==
    << [e |-> "LINE", layer |-> "LINES", rib |-> ribIndex,
        x1 |-> fix6(offsetX), y1 |-> Num(0),
        x2 |-> fix6(RAdd(offsetX, profile[1].x)), y2 |-> fix6(profile[1].y)] >>

\* "Curved edge as spline polyline": POLYLINE, one VERTEX per point, SEQEND
curvedEdge(profile, offsetX, ribIndex) ==
    << [e |-> "POLYLINE", layer |-> "CURVES", rib |-> ribIndex] >>
    \o [k \in 1..Len(profile) |->
          [e |-> "VERTEX", layer |-> "CURVES", rib |-> ribIndex,
           x1 |-> fix6(RAdd(offsetX, profile[k].x)), y1 |-> fix6(profile[k].y)]]
    \o << [e |-> "SEQEND", layer |-> "CURVES", rib |-> ribIndex] >>

\* "Top edge line": from the profile's last point to the wall line at full height
topEdge(profile, offsetX, height, ribIndex) ==
    << [e |-> "LINE", layer |-> "LINES", rib |-> ribIndex,
        x1 |-> fix6(RAdd(offsetX, profile[Len(profile)].x)),
        y1 |-> fix6(profile[Len(profile)].y),
        x2 |-> fix6(offsetX), y2 |-> fix6(height)] >>

\* "Left edge line (straight, at wall)"
leftEdge(offsetX, height, ribIndex) ==
    << [e |-> "LINE", layer |-> "LINES", rib |-> ribIndex,
        x1 |-> fix6(offsetX), y1 |-> fix6(height),
        x2 |-> fix6(offsetX), y2 |-> Num(0)] >>

\* a faulty variant: the polyline written before the bottom edge
ribGroupReordered(profile, offsetX, height, ribIndex) ==
    curvedEdge(profile, offsetX, ribIndex)
    \o bottomEdge(profile, offsetX, ribIndex)
    \o topEdge(profile, offsetX, height, ribIndex)
    \o leftEdge(offsetX, height, ribIndex)

\* the entities one rib adds to the document, in the order they are appended
ribGroup(profile, offsetX, height, ribIndex) ==
    bottomEdge(profile, offsetX, ribIndex)
    \o curvedEdge(profile, offsetX, ribIndex)
    \o topEdge(profile, offsetX, height, ribIndex)
    \o leftEdge(offsetX, height, ribIndex)

\* the callback of ribProfiles.forEach((rib, ribIndex) => ...), for a rib whose
\* profile is not empty; const offsetX = ribIndex * dxfSpacing
ribEntities(rib, ribIndex, p) ==
    ribGroup(rib.profile, RMul(Num(ribIndex), dxfSpacing(p)), p.height, ribIndex)

\* const firstPoint = profile[0]; firstPoint.x raises when the profile is empty
dxfThrows(ribs) == \E k \in 1..Len(ribs) : Len(ribs[k].profile) = 0

exportDXF(ribs, p) ==
    IF dxfThrows(ribs)
    THEN TypeError
    ELSE dxfHeader
         \o Flatten([k \in 1..Len(ribs) |-> ribEntities(ribs[k], k - 1, p)])
         \o dxfTrailer

-----------------------------------------------------------------------------
(* Pricing *)

PRICE_PER_SF == 45
PRICE_LED_PER_LF == 30
SHEET_WIDTH == 48
SHEET_HEIGHT == 144
SHEET_PRICE == 1800

\* a faulty variant: the ceiling run counted in every mode
ribLengthAlwaysBoth(p, mode) == RAdd(p.height, p.ceilingRun)

\* a faulty variant: the rib length taken from the loaded image's height when there is one
ribLengthFromImage(p, mode) ==
    IF imageData # NULL THEN Num(imageData.height)
    ELSE IF mode = "both" THEN RAdd(p.height, p.ceilingRun) ELSE p.height

\* const ribLength = installationMode === 'both' ? height + ceilingRun : height
ribLengthOf(p, mode) ==
    IF mode = "both" THEN RAdd(p.height, p.ceilingRun) ELSE p.height

\* a faulty variant: the LED price added whether or not LEDs are enabled
totalPriceAlwaysLed(ribPrice, ledPrice, led) == RAdd(ribPrice, ledPrice)

\* const totalPrice = ribPrice + (ledEnabled ? ledPrice : 0)
totalPriceOf(ribPrice, ledPrice, led) ==
    RAdd(ribPrice, IF led THEN ledPrice ELSE Num(0))

\* Math.floor(SHEET_WIDTH / params.maxDepth)
ribsPerSheetOf(p) == RFloor(RDiv(Num(SHEET_WIDTH), p.maxDepth))

\* a faulty variant: Math.floor in place of Math.ceil
sheetsNeededFloor(totalSlots, ribsPerSheet) ==
    RFloor(R(totalSlots, IF ribsPerSheet > 1 THEN ribsPerSheet ELSE 1))

\* Math.ceil(totalSlots / Math.max(ribsPerSheet, 1))
sheetsNeededOf(totalSlots, ribsPerSheet) ==
    RCeil(R(totalSlots, IF ribsPerSheet > 1 THEN ribsPerSheet ELSE 1))

\* wallCoverage is kept as the numbers its text shows, each toFixed(1)
calculatePricing(p, mode, led) ==
    LET totalWidth            == RMul(Num(p.count - 1), p.spacing)
        ribLength             == ribLengthOf(p, mode)
        surfaceAreaPerRibSqIn == RMul(ribLength, p.maxDepth)
        surfaceAreaPerRibSqFt == RDiv(surfaceAreaPerRibSqIn, Num(144))
        totalSurfaceAreaSqFt  == RMul(surfaceAreaPerRibSqFt, Num(p.count))
        ribPrice              == RMul(totalSurfaceAreaSqFt, Num(PRICE_PER_SF))
        ledLinearFeet         == RMul(RDiv(ribLength, Num(12)), Num(p.count))
        ledPrice              == RMul(ledLinearFeet, Num(PRICE_LED_PER_LF))
        ribsPerSheet          == ribsPerSheetOf(p)
        sectionsPerRib        == RCeil(RDiv(ribLength, Num(SHEET_HEIGHT)))
        totalSlots            == p.count * sectionsPerRib
        sheetsNeeded          == sheetsNeededOf(totalSlots, ribsPerSheet)
    IN  [totalWidth           |-> totalWidth,
         ribLength            |-> ribLength,
         totalSurfaceAreaSqFt |-> totalSurfaceAreaSqFt,
         ribPrice             |-> ribPrice,
         ledLinearFeet        |-> ledLinearFeet,
         ledPrice             |-> ledPrice,
         totalPrice           |-> totalPriceOf(ribPrice, ledPrice, led),
         ribsPerSheet         |-> ribsPerSheet,
         sectionsPerRib       |-> sectionsPerRib,
         sheetsNeeded         |-> sheetsNeeded,
         sheetTotalCost       |-> sheetsNeeded * SHEET_PRICE,
         wallCoverage         |->
            IF mode = "both"
            THEN [wide    |-> toFixed(RDiv(totalWidth, Num(12)), 1),
                  wall    |-> toFixed(RDiv(p.height, Num(12)), 1),
                  ceiling |-> toFixed(RDiv(p.ceilingRun, Num(12)), 1)]
            ELSE [wide |-> toFixed(RDiv(totalWidth, Num(12)), 1),
                  tall |-> toFixed(RDiv(p.height, Num(12)), 1)]]

-----------------------------------------------------------------------------
(* CSV export.  The report is the sequence of its lines: the header, one     *)
(* line per rib, and the label,value lines of the blocks, with the blank     *)
(* lines between them.  A number printed with toFixed is kept as the number  *)
(* the print denotes; the Phase Shift cell is kept in turns.                 *)

WAVE_TYPES == <<"Sine", "Smooth", "Sharp">>

csvHeader ==
    << [row |-> "header",
        cells |-> <<"Rib Index", "Height (in)", "Min Depth (in)", "Max Depth (in)",
                    "Thickness (in)", "Phase Shift (rad)">>] >>

\* the line the loop over i writes
csvRibRow(p, i) ==
    [row |-> "rib", index |-> i, height |-> p.height, minDepth |-> p.minDepth,
     maxDepth |-> p.maxDepth, thickness |-> p.thickness,
     phaseShift |-> toFixed(RMul(Num(i), p.phase), 4)]

csvBlank == [row |-> "blank"]
csvSection(label) == [row |-> "section", label |-> label]
csvValue(label, value) == [row |-> "value", label |-> label, value |-> value]
csvText(label, text) == [row |-> "text", label |-> label, text |-> text]

csvArraySettings(p) ==
    << csvBlank, csvSection("Array Settings"),
       csvValue("Total Ribs", Num(p.count)),
       csvValue("Spacing", p.spacing),
       csvValue("Total Width", toFixed(RMul(Num(p.count - 1), p.spacing), 2)),
       csvValue("Wave Frequency", p.frequency),
       csvText("Wave Type", WAVE_TYPES[p.waveType + 1]),
       csvValue("Control Points", Num(p.controlPoints)),
       csvValue("Display Resolution", Num(p.displayResolution)) >>

\* a faulty variant: the wall height in every mode
csvRibLengthWallOnly(p, mode) == p.height

\* const ribLength = installationMode === 'both' ? height + ceilingRun : height
csvRibLength(p, mode) ==
    IF mode = "both" THEN RAdd(p.height, p.ceilingRun) ELSE p.height

csvPricing(p, mode, led) ==
    LET ribLength             == csvRibLength(p, mode)
        surfaceAreaPerRibSqFt == RDiv(RMul(ribLength, p.maxDepth), Num(144))
        totalSurfaceAreaSqFt  == RMul(surfaceAreaPerRibSqFt, Num(p.count))
        ribPrice              == RMul(totalSurfaceAreaSqFt, Num(PRICE_PER_SF))
        ledLinearFeet         == RMul(RDiv(ribLength, Num(12)), Num(p.count))
        ledPrice              == RMul(ledLinearFeet, Num(PRICE_LED_PER_LF))
        totalPrice            == RAdd(ribPrice, IF led THEN ledPrice ELSE Num(0))
    IN  << csvBlank, csvSection("Pricing"),
           csvValue("Surface Area per Rib", toFixed(surfaceAreaPerRibSqFt, 2)),
           csvValue("Total Surface Area", toFixed(totalSurfaceAreaSqFt, 2)),
           csvValue("Rib Price per SF", Num(PRICE_PER_SF)),
           csvValue("Rib Total", toFixed(ribPrice, 2)),
           csvBlank, csvText("LED Lighting", IF led THEN "Yes" ELSE "No") >>
        \o (IF led
            THEN << csvValue("LED Linear Feet", toFixed(ledLinearFeet, 2)),
                    csvValue("LED Price per LF", Num(PRICE_LED_PER_LF)),
                    csvValue("LED Total", toFixed(ledPrice, 2)) >>
            ELSE << >>)
        \o << csvBlank, csvValue("Grand Total", toFixed(totalPrice, 2)) >>

exportCSV(p, mode, led) ==
    csvHeader
    \o Array([k \in 1..p.count |-> csvRibRow(p, k - 1)])
    \o csvArraySettings(p)
    \o csvPricing(p, mode, led)

-----------------------------------------------------------------------------
(* Bounds and input sets *)

MaxCount == 2
MaxControlPoints == 3
MaxResolution == 3

Modes == {"wall", "ceiling", "both"}

Depths == {Num(4), Num(12)}

\* a decoded 3 x 3 grey image per source; the engine's three references to it
pixelsOf(src) ==
    [k \in 1..9 |->
        LET g == IF src = "A" THEN 51 * (k % 6) ELSE 51 * ((2 * k + 1) % 6)
        IN  [r |-> g, g |-> g, b |-> g]]

imageCanvasOf(src) == [width |-> 3, height |-> 3, src |-> src]
imageCtxOf(src) == [canvas |-> src]
imageDataOf(src) == [data |-> pixelsOf(src), width |-> 3, height |-> 3, src |-> src]

\* the (height, ceilingRun) pairs the generator is exercised on
Runs == {<<Num(100), Num(50)>>, <<Num(70), Num(30)>>}

\* the params the generator is exercised on
GenParams ==
    {p \in [height: {r[1] : r \in Runs}, minDepth: Depths, maxDepth: Depths,
            thickness: {R(1, 2)}, count: 1..MaxCount, spacing: {Num(7)},
            frequency: {Num(2)}, phase: {R(1, 4)}, waveType: 0..2,
            controlPoints: 2..MaxControlPoints,
            displayResolution: 2..MaxResolution,
            color: {"#ffffff"}, ceilingRun: {r[2] : r \in Runs}] :
        <<p.height, p.ceilingRun>> \in Runs}

-----------------------------------------------------------------------------
(* The generator and the DXF exporter called directly: generateRibProfiles  *)
(* on a params object, then exportDXF on what it returned and on that same  *)
(* object.                                                                  *)

InitGen ==
    /\ params \in GenParams
    /\ installationMode \in Modes
    /\ \E src \in {"none", "A"} :
          /\ imageData = IF src = "none" THEN NULL ELSE imageDataOf(src)
          /\ imageCanvas = IF src = "none" THEN NULL ELSE imageCanvasOf(src)
          /\ imageCtx = IF src = "none" THEN NULL ELSE imageCtxOf(src)
          /\ imageScale = IF src = "none" THEN Num(1) ELSE R(1, 2)
    /\ ledEnabled = FALSE
    /\ ribProfiles = << >>
    /\ ceilingProfilesArr = << >>
    /\ callParams = NULL
    /\ dxf = NULL
    /\ pricing = NULL
    /\ priced = NULL
    /\ loads = << >>
    /\ sampled = NULL
    /\ csv = NULL
    /\ PanelsAtLoad
    /\ NoServer
    /\ pendingAtClear = {}
    /\ op = "init"

\* the caller's view after "const { ribProfiles, ceilingProfilesArr } =
\* generateRibProfiles(params, ...)": its two arrays, and its params object
Returned(res) ==
    /\ params' = res.params
    /\ ribProfiles' = IF res.threw THEN ribProfiles ELSE res.ribProfiles
    /\ ceilingProfilesArr' =
          IF res.threw THEN ceilingProfilesArr ELSE res.ceilingProfilesArr
    /\ op' = IF res.threw THEN "threw" ELSE "generate"

GenerateCall ==
    /\ op = "init"
    /\ Returned(generateRibProfiles(engineImage, params, installationMode, imageScale))
    /\ callParams' = params
    /\ UNCHANGED <<loads, sampled, csv, panelVars, serverVars, pendingAtClear,
                   installationMode, imageScale, ledEnabled, imageData,
                   imageCanvas, imageCtx, dxf, pricing, priced>>

ExportDXFCall ==
    /\ op = "generate"
    /\ dxf' = exportDXF(ribProfiles, params)
    /\ op' = IF dxfThrows(ribProfiles) THEN "threw" ELSE "dxf"
    /\ UNCHANGED <<loads, sampled, csv, panelVars, serverVars, pendingAtClear,
                   params, installationMode, imageScale, ledEnabled, ribProfiles,
                   ceilingProfilesArr, imageData, imageCanvas, imageCtx,
                   callParams, pricing, priced>>

NextGen == GenerateCall \/ ExportDXFCall

SpecGen == InitGen /\ [][NextGen]_vars

-----------------------------------------------------------------------------
(* The generator called with the counts an AI-returned parameter set can     *)
(* hold: controlPoints and count below their slider minimum, down to 0.      *)

DegenerateParams ==
    {p \in [height: {r[1] : r \in Runs}, minDepth: Depths, maxDepth: Depths,
            thickness: {R(1, 2)}, count: 0..MaxCount, spacing: {Num(7)},
            frequency: {Num(2)}, phase: {R(1, 4)}, waveType: {0},
            controlPoints: 0..2, displayResolution: {2},
            color: {"#ffffff"}, ceilingRun: {r[2] : r \in Runs}] :
        <<p.height, p.ceilingRun>> \in Runs}

InitDegenerate ==
    /\ params \in DegenerateParams
    /\ installationMode \in Modes
    /\ \E src \in {"none", "A"} :
          /\ imageData = IF src = "none" THEN NULL ELSE imageDataOf(src)
          /\ imageCanvas = IF src = "none" THEN NULL ELSE imageCanvasOf(src)
          /\ imageCtx = IF src = "none" THEN NULL ELSE imageCtxOf(src)
    /\ imageScale = Num(1)
    /\ ledEnabled = FALSE
    /\ ribProfiles = << >>
    /\ ceilingProfilesArr = << >>
    /\ callParams = NULL
    /\ dxf = NULL
    /\ pricing = NULL
    /\ priced = NULL
    /\ loads = << >>
    /\ sampled = NULL
    /\ csv = NULL
    /\ PanelsAtLoad
    /\ NoServer
    /\ pendingAtClear = {}
    /\ op = "init"

NextDegenerate == GenerateCall

SpecDegenerate == InitDegenerate /\ [][NextDegenerate]_vars

-----------------------------------------------------------------------------
(* exportDXF called directly, on profile arrays a caller can build: the      *)
(* function is exported and takes any RibProfile[], short profiles included. *)

MaxRibs == 2

DxfPoints == << [x |-> Num(4), y |-> Num(0)],
               [x |-> Num(8), y |-> Num(50)],
               [x |-> Num(12), y |-> Num(100)] >>

\* profiles of 0, 1, 2 and 3 points
DxfProfiles ==
    { << >>,
      << DxfPoints[1] >>,
      << DxfPoints[3] >>,
      << DxfPoints[1], DxfPoints[3] >>,
      << DxfPoints[2], DxfPoints[3] >>,
      DxfPoints }

\* interface RibProfile { index, profile, controlPoints, height, thickness }
DxfRib(i, profile) ==
    [index |-> i, profile |-> profile, controlPoints |-> << >>,
     height |-> Num(100), thickness |-> R(1, 2)]

DxfRibArrays ==
    UNION {{[k \in 1..n |-> DxfRib(k - 1, f[k])] : f \in [1..n -> DxfProfiles]} :
           n \in 1..MaxRibs}

InitDXF ==
    /\ params \in {p \in GenParams :
                     /\ p.height = Num(100) /\ p.minDepth = Num(4)
                     /\ p.count = 1 /\ p.waveType = 0
                     /\ p.controlPoints = 2 /\ p.displayResolution = 2}
    /\ ribProfiles \in DxfRibArrays
    /\ installationMode = "wall"
    /\ imageData = NULL
    /\ imageCanvas = NULL
    /\ imageCtx = NULL
    /\ imageScale = Num(1)
    /\ ledEnabled = FALSE
    /\ ceilingProfilesArr = << >>
    /\ callParams = NULL
    /\ dxf = NULL
    /\ pricing = NULL
    /\ priced = NULL
    /\ loads = << >>
    /\ sampled = NULL
    /\ csv = NULL
    /\ PanelsAtLoad
    /\ NoServer
    /\ pendingAtClear = {}
    /\ op = "generate"

NextDXF == ExportDXFCall

SpecDXF == InitDXF /\ [][NextDXF]_vars

-----------------------------------------------------------------------------
(* calculatePricing called directly *)

PriceDepths == {Num(4), Num(5), Num(12), Num(50)}

\* the params the calculator is exercised on; they include the worked example
\* of the chat assistant's system prompt (count 40, height 144, maxDepth 12)
PricingParams ==
    [height: {Num(100), Num(144)}, minDepth: PriceDepths, maxDepth: PriceDepths,
     thickness: {R(1, 2)}, count: (1..MaxCount) \cup {40}, spacing: {Num(7)},
     frequency: {Num(2)}, phase: {R(1, 4)}, waveType: {0},
     controlPoints: {MaxControlPoints}, displayResolution: {MaxResolution},
     color: {"#ffffff"}, ceilingRun: {Num(50), Num(96)}]

InitPricing ==
    /\ params \in PricingParams
    /\ installationMode \in Modes
    /\ ledEnabled \in BOOLEAN
    /\ imageScale = Num(1)
    /\ imageData = NULL /\ imageCanvas = NULL /\ imageCtx = NULL
    /\ ribProfiles = << >>
    /\ ceilingProfilesArr = << >>
    /\ callParams = NULL
    /\ dxf = NULL
    /\ pricing = NULL
    /\ priced = NULL
    /\ loads = << >>
    /\ sampled = NULL
    /\ csv = NULL
    /\ PanelsAtLoad
    /\ NoServer
    /\ pendingAtClear = {}
    /\ op = "init"

PricingCall ==
    /\ op = "init"
    /\ pricing' = calculatePricing(params, installationMode, ledEnabled)
    /\ callParams' = params
    /\ op' = "pricing"
    /\ UNCHANGED <<loads, sampled, csv, panelVars, serverVars, pendingAtClear,
                   params, installationMode, imageScale, ledEnabled, ribProfiles,
                   ceilingProfilesArr, imageData, imageCanvas, imageCtx, dxf, priced>>

NextPricing == PricingCall

SpecPricing == InitPricing /\ [][NextPricing]_vars

-----------------------------------------------------------------------------
(* exportCSV and calculatePricing called on the same arguments, as the       *)
(* export bar and the info bar call them on App's params, installationMode   *)
(* and ledEnabled.                                                           *)

CsvParams ==
    [height: {Num(100), Num(144)}, minDepth: {Num(4)}, maxDepth: PriceDepths,
     thickness: {R(1, 2)}, count: (0..MaxCount) \cup {40}, spacing: {Num(7)},
     frequency: {Num(2)}, phase: {R(1, 4)}, waveType: {0},
     controlPoints: {MaxControlPoints}, displayResolution: {MaxResolution},
     color: {"#ffffff"}, ceilingRun: {Num(50)}]

InitCSV ==
    /\ params \in CsvParams
    /\ installationMode \in Modes
    /\ ledEnabled \in BOOLEAN
    /\ imageScale = Num(1)
    /\ imageData = NULL /\ imageCanvas = NULL /\ imageCtx = NULL
    /\ ribProfiles = << >>
    /\ ceilingProfilesArr = << >>
    /\ callParams = NULL
    /\ dxf = NULL
    /\ pricing = NULL
    /\ priced = NULL
    /\ loads = << >>
    /\ sampled = NULL
    /\ csv = NULL
    /\ PanelsAtLoad
    /\ NoServer
    /\ pendingAtClear = {}
    /\ op = "init"

ExportCSVCall ==
    /\ op \in {"init", "pricing"}
    /\ csv' = exportCSV(params, installationMode, ledEnabled)
    /\ op' = "csv"
    /\ UNCHANGED <<params, installationMode, imageScale, ledEnabled, ribProfiles,
                   ceilingProfilesArr, imageData, imageCanvas, imageCtx,
                   callParams, dxf, pricing, priced, loads, sampled,
                   panelVars, serverVars, pendingAtClear>>

NextCSV == PricingCall \/ ExportCSVCall

SpecCSV == InitCSV /\ [][NextCSV]_vars

-----------------------------------------------------------------------------
(* The application: App's state, the panels' handlers, and the Viewport3D    *)
(* effect that runs after every change of params, installationMode,          *)
(* imageScale or ledEnabled.  dxf and pricing hold what the last handler     *)
(* produced, until the next event.  The LED toggle is left at its initial    *)
(* value.                                                                    *)

\* DEFAULT_PARAMS, with count, controlPoints and displayResolution cut down to
\* the bounds (the chat assistant can set them to any number)
DEFAULT_PARAMS ==
    [height |-> Num(144), minDepth |-> Num(4), maxDepth |-> Num(12),
     thickness |-> R(1, 2), count |-> MaxCount, spacing |-> Num(7),
     frequency |-> Num(2), phase |-> R(1, 4), waveType |-> 0,
     controlPoints |-> 2, displayResolution |-> 2,
     color |-> "#ffffff", ceilingRun |-> Num(96)]

\* what the effect hands to onRibProfilesGenerated: the profiles generated from
\* safeParams, a copy of params with the depths ordered; in mode both each rib
\* also gets its ceilingProfile and the ceilingRun
viewportProfilesOf(p, mode, res) ==
    IF mode = "both"
    THEN [k \in 1..Len(res.ribProfiles) |->
            res.ribProfiles[k] @@ [ceilingProfile |-> res.ceilingProfilesArr[k],
                                   ceilingRun     |-> p.ceilingRun]]
    ELSE res.ribProfiles

\* a faulty variant: the effect generates with the image scale of the first
\* render, as it would were imageScale missing from its dependencies
viewportProfilesFirstScale(image, p, mode, scale) ==
    viewportProfilesOf(p, mode,
        generateRibProfiles(image, [p EXCEPT !.minDepth = RMinOf(p.minDepth, p.maxDepth),
                                      !.maxDepth = RMaxOf(p.minDepth, p.maxDepth)],
                            mode, Num(1)))

viewportProfiles(image, p, mode, scale) ==
    viewportProfilesOf(p, mode,
        generateRibProfiles(image, [p EXCEPT !.minDepth = RMinOf(p.minDepth, p.maxDepth),
                                      !.maxDepth = RMaxOf(p.minDepth, p.maxDepth)],
                            mode, scale))

\* the handler's new state is committed and the effect runs on it: what a
\* render changes of the application and the engine
Commit(p, mode, led, image, scale) ==
    /\ params' = p
    /\ installationMode' = mode
    /\ ledEnabled' = led
    /\ imageScale' = scale
    /\ imageData' = image.imageData
    /\ imageCanvas' = image.imageCanvas
    /\ imageCtx' = image.imageCtx
    /\ ribProfiles' = viewportProfiles(image, p, mode, scale)
    /\ dxf' = NULL
    /\ pricing' = NULL
    /\ op' = "render"
    /\ UNCHANGED <<sampled, csv, ceilingProfilesArr, callParams, priced>>

\* a render that leaves the panels and the loads in progress alone
Render(p, mode, led, image) ==
    /\ Commit(p, mode, led, image, imageScale)
    /\ UNCHANGED <<loads, panelVars, serverVars, pendingAtClear>>

Init ==
    /\ params = DEFAULT_PARAMS
    /\ installationMode = "wall"
    /\ ledEnabled = FALSE
    /\ imageScale = Num(1)
    /\ imageData = NULL /\ imageCanvas = NULL /\ imageCtx = NULL
    /\ ribProfiles = << >>
    /\ ceilingProfilesArr = << >>
    /\ callParams = NULL
    /\ dxf = NULL
    /\ pricing = NULL
    /\ priced = NULL
    /\ loads = << >>
    /\ sampled = NULL
    /\ csv = NULL
    /\ PanelsAtLoad
    /\ NoServer
    /\ pendingAtClear = {}
    /\ op = "init"

\* the first run of the effect, when the scene exists
Mount ==
    /\ op = "init"
    /\ Render(params, installationMode, ledEnabled, engineImage)

\* ControlPanel's sliders for the two depths
updateParamDepth ==
    /\ op # "init"
    /\ \E key \in {"minDepth", "maxDepth"}, value \in Depths :
          Render([params EXCEPT ![key] = value], installationMode, ledEnabled,
                 engineImage)

\* the image scales the slider is moved to
ImageScales == {R(1, 2), Num(1)}

\* what the assistant may return: count, and the keys named in keys
AiParams ==
    [keys: {{}, {"minDepth", "maxDepth", "installationMode"}},
     count: 1..MaxCount, minDepth: {Num(12)}, maxDepth: {Num(4)},
     installationMode: {"both"}]

\* newParams of applyParams
appliedParams(p, aiParams) ==
    [p EXCEPT !.count    = aiParams.count,
              !.minDepth = IF "minDepth" \in aiParams.keys
                           THEN aiParams.minDepth ELSE @,
              !.maxDepth = IF "maxDepth" \in aiParams.keys
                           THEN aiParams.maxDepth ELSE @]

\* ChatPanel's applyParams
applyParams ==
    /\ op # "init"
    /\ \E aiParams \in AiParams :
          Render(appliedParams(params, aiParams),
                 IF "installationMode" \in aiParams.keys
                 THEN aiParams.installationMode ELSE installationMode,
                 ledEnabled, engineImage)

\* ControlPanel's mode buttons
setInstallationMode ==
    /\ op # "init"
    /\ \E mode \in Modes : Render(params, mode, ledEnabled, engineImage)

\* App's setImageScale, handed down as onImageScaleChange to the Image Scale
\* slider and to applyParams
setImageScale ==
    /\ op # "init"
    /\ \E scale \in ImageScales :
          /\ Commit(params, installationMode, ledEnabled, engineImage, scale)
          /\ UNCHANGED <<loads, panelVars, serverVars, pendingAtClear>>

\* a faulty variant: img.onload replaces imageData and keeps a canvas of before
loadedImageDataOnly(src) ==
    [imageData |-> imageDataOf(src), imageCanvas |-> imageCanvasOf("stale"),
     imageCtx |-> imageCtxOf("stale")]

\* the engine's image state once loadImageFromUrl / loadImageData has resolved
loadedImage(src) ==
    [imageData |-> imageDataOf(src), imageCanvas |-> imageCanvasOf(src),
     imageCtx |-> imageCtxOf(src)]

\* the engine's image state after clearImageData()
clearedImage == [imageData |-> NULL, imageCanvas |-> NULL, imageCtx |-> NULL]

\* loadPattern / handleImageUpload once the image has loaded, then
\* handleImageModeChange(true): params is replaced by a copy of itself
loadPattern ==
    /\ op # "init"
    /\ \E src \in {"A"} : Render(params, installationMode, ledEnabled, loadedImage(src))

\* handleClearImage: clearImageData(), then handleImageModeChange(false)
handleClearImage ==
    /\ op # "init"
    /\ Commit(params, installationMode, ledEnabled, clearedImage, imageScale)
    /\ pendingAtClear' = inProgress(loads)
    /\ UNCHANGED <<loads, panelVars, serverVars>>

\* ExportBar's DXF button: the profiles of the last effect, and App's params
handleExportDXF ==
    /\ op # "init"
    /\ Len(ribProfiles) # 0
    /\ dxf' = exportDXF(ribProfiles, params)
    /\ pricing' = NULL
    /\ op' = "dxf"
    /\ UNCHANGED <<loads, sampled, csv, panelVars, serverVars, pendingAtClear,
                   params, installationMode, imageScale, ledEnabled, ribProfiles,
                   ceilingProfilesArr, imageData, imageCanvas, imageCtx,
                   callParams, priced>>

\* InfoBar's useMemo on App's params, installationMode and ledEnabled
InfoBar ==
    /\ op # "init"
    /\ pricing' = calculatePricing(params, installationMode, ledEnabled)
    /\ dxf' = NULL
    /\ op' = "pricing"
    /\ UNCHANGED <<loads, sampled, csv, panelVars, serverVars, pendingAtClear,
                   params, installationMode, imageScale, ledEnabled, ribProfiles,
                   ceilingProfilesArr, imageData, imageCanvas, imageCtx,
                   callParams, priced>>

Next ==
    \/ Mount
    \/ updateParamDepth
    \/ applyParams
    \/ setInstallationMode
    \/ setImageScale
    \/ loadPattern
    \/ handleClearImage
    \/ handleExportDXF
    \/ InfoBar

Spec == Init /\ [][Next]_vars

-----------------------------------------------------------------------------
(* The engine's functions called in any order on one params object: the     *)
(* generator, the image loader, clearImageData, the DXF exporter and the    *)
(* calculator.  priced remembers the first call of the calculator: its      *)
(* arguments, its result, and the image and the profiles there were.        *)

CallParams ==
    {[DEFAULT_PARAMS EXCEPT !.count = 1, !.minDepth = d[1], !.maxDepth = d[2]] :
        d \in {<<Num(4), Num(12)>>, <<Num(12), Num(4)>>}}

InitCalls ==
    /\ params \in CallParams
    /\ installationMode \in {"wall", "both"}
    /\ ledEnabled = FALSE
    /\ imageScale = Num(1)
    /\ imageData = NULL /\ imageCanvas = NULL /\ imageCtx = NULL
    /\ ribProfiles = << >>
    /\ ceilingProfilesArr = << >>
    /\ callParams = NULL
    /\ dxf = NULL
    /\ pricing = NULL
    /\ priced = NULL
    /\ loads = << >>
    /\ sampled = NULL
    /\ csv = NULL
    /\ PanelsAtLoad
    /\ NoServer
    /\ pendingAtClear = {}
    /\ op = "init"

CallGenerate ==
    /\ Returned(generateRibProfiles(engineImage, params, installationMode, imageScale))
    /\ dxf' = NULL
    /\ pricing' = NULL
    /\ UNCHANGED <<loads, sampled, csv, panelVars, serverVars, pendingAtClear,
                   installationMode, imageScale, ledEnabled, imageData,
                   imageCanvas, imageCtx, callParams, priced>>

CallLoadImage ==
    /\ \E src \in {"A"} :
          /\ imageCanvas' = imageCanvasOf(src)
          /\ imageCtx' = imageCtxOf(src)
          /\ imageData' = imageDataOf(src)
    /\ op' = "load"
    /\ dxf' = NULL
    /\ pricing' = NULL
    /\ UNCHANGED <<loads, sampled, csv, panelVars, serverVars, pendingAtClear,
                   params, installationMode, imageScale, ledEnabled, ribProfiles,
                   ceilingProfilesArr, callParams, priced>>

CallClearImage ==
    /\ imageData' = NULL /\ imageCanvas' = NULL /\ imageCtx' = NULL
    /\ op' = "clear"
    /\ dxf' = NULL
    /\ pricing' = NULL
    /\ pendingAtClear' = inProgress(loads)
    /\ UNCHANGED <<loads, sampled, csv, panelVars, serverVars,
                   params, installationMode, imageScale, ledEnabled, ribProfiles,
                   ceilingProfilesArr, callParams, priced>>

CallExportDXF ==
    /\ Len(ribProfiles) # 0
    /\ dxf' = exportDXF(ribProfiles, params)
    /\ op' = "dxf"
    /\ pricing' = NULL
    /\ UNCHANGED <<loads, sampled, csv, panelVars, serverVars, pendingAtClear,
                   params, installationMode, imageScale, ledEnabled, ribProfiles,
                   ceilingProfilesArr, imageData, imageCanvas, imageCtx,
                   callParams, priced>>

\* calculatePricing has no assignment to params or to a field of it
paramsAfterPricing(p) == p

CallPricing ==
    /\ \E led \in BOOLEAN :
          /\ ledEnabled' = led
          /\ pricing' = calculatePricing(params, installationMode, led)
          /\ priced' =
                IF priced # NULL THEN priced
                ELSE [args      |-> <<params, installationMode, led>>,
                      result    |-> calculatePricing(params, installationMode, led),
                      imageData |-> imageData,
                      profiles  |-> Len(ribProfiles)]
    /\ callParams' = params
    /\ params' = paramsAfterPricing(params)
    /\ op' = "pricing"
    /\ dxf' = NULL
    /\ UNCHANGED <<loads, sampled, csv, panelVars, serverVars, pendingAtClear,
                   installationMode, imageScale, ribProfiles, ceilingProfilesArr,
                   imageData, imageCanvas, imageCtx>>

NextCalls ==
    \/ CallGenerate
    \/ CallLoadImage
    \/ CallClearImage
    \/ CallExportDXF
    \/ CallPricing

SpecCalls == InitCalls /\ [][NextCalls]_vars

-----------------------------------------------------------------------------
(* Image loading, event by event.  loadImageData and loadImageFromUrl return *)
(* a promise and register handlers; the browser then fires, per FileReader   *)
(* and per Image element, either its load or its error event.  loads holds   *)
(* one record per call: the function, what the file or URL holds, how far    *)
(* the browser has got, and the state of the promise.                        *)

MaxLoads == 2

\* the contents the browser can decode to an image
Decodable == {"A", "B"}

\* files: a text file, an image, an image file whose bytes are not an image,
\* and an image file that cannot be read any more
Files ==
    { [type |-> [major |-> "text", minor |-> "plain"], content |-> "text"],
      [type |-> [major |-> "image", minor |-> "png"], content |-> "A"],
      [type |-> [major |-> "image", minor |-> "png"], content |-> "corrupt"],
      [type |-> [major |-> "image", minor |-> "png"], content |-> "unreadable"] }

\* URLs: two pattern images, and one nothing is served under
Urls == {"A", "B", "missing"}

\* loadImageData up to reader.readAsDataURL(file)
loadImageDataCall(file) ==
    IF file.type.major # "image"
    THEN [fn |-> "loadImageData", content |-> file.content,
          stage |-> "done", promise |-> "rejected"]
    ELSE [fn |-> "loadImageData", content |-> file.content,
          stage |-> "reading", promise |-> "pending"]

\* loadImageFromUrl up to img.src = url
loadImageFromUrlCall(url) ==
    [fn |-> "loadImageFromUrl", content |-> url,
     stage |-> "decoding", promise |-> "pending"]

\* reader.onload: new Image(), img.onload = ..., img.src = e.target.result
readerOnload(l) == [l EXCEPT !.stage = "decoding"]

\* the FileReader's error event: loadImageData sets no reader.onerror
readerOnerror(l) == [l EXCEPT !.stage = "failed"]

\* img.onload, after the three assignments: resolve(...)
imgOnload(l) == [l EXCEPT !.stage = "done", !.promise = "resolved"]

\* the Image's error event: loadImageFromUrl has img.onerror = reject,
\* loadImageData sets no img.onerror
imgOnerror(l) ==
    IF l.fn = "loadImageFromUrl"
    THEN [l EXCEPT !.stage = "done", !.promise = "rejected"]
    ELSE [l EXCEPT !.stage = "failed"]

\* a faulty variant: the error path drops the active image
imageAfterErrorCleared(image) == clearedImage

\* the engine's image state after an error event: no handler assigns to it
imageAfterError(image) == image

InitImage ==
    /\ params = DEFAULT_PARAMS
    /\ installationMode = "wall"
    /\ imageScale = Num(1)
    /\ ledEnabled = FALSE
    /\ ribProfiles = << >>
    /\ ceilingProfilesArr = << >>
    /\ imageData = NULL
    /\ imageCanvas = NULL
    /\ imageCtx = NULL
    /\ callParams = NULL
    /\ dxf = NULL
    /\ pricing = NULL
    /\ priced = NULL
    /\ loads = << >>
    /\ sampled = NULL
    /\ csv = NULL
    /\ PanelsAtLoad
    /\ NoServer
    /\ pendingAtClear = {}
    /\ op = "init"

\* what no step of a load touches
ImageFrame ==
    UNCHANGED <<params, installationMode, imageScale, ledEnabled, ribProfiles,
                ceilingProfilesArr, callParams, dxf, csv, pricing, priced,
                sampled, panelVars, serverVars, pendingAtClear>>

LoadImageDataCall ==
    /\ Len(loads) < MaxLoads
    /\ \E file \in Files :
          /\ loads' = Append(loads, loadImageDataCall(file))
          /\ op' = IF loadImageDataCall(file).promise = "rejected"
                   THEN "rejected" ELSE "called"
    /\ UNCHANGED <<imageData, imageCanvas, imageCtx>>
    /\ ImageFrame

LoadImageFromUrlCall ==
    /\ Len(loads) < MaxLoads
    /\ \E url \in Urls : loads' = Append(loads, loadImageFromUrlCall(url))
    /\ op' = "called"
    /\ UNCHANGED <<imageData, imageCanvas, imageCtx>>
    /\ ImageFrame

ReaderLoad(i) ==
    /\ i \in 1..Len(loads)
    /\ loads[i].stage = "reading"
    /\ loads[i].content # "unreadable"
    /\ loads' = [loads EXCEPT ![i] = readerOnload(loads[i])]
    /\ op' = "read"
    /\ UNCHANGED <<imageData, imageCanvas, imageCtx>>
    /\ ImageFrame

ReaderError(i) ==
    /\ i \in 1..Len(loads)
    /\ loads[i].stage = "reading"
    /\ loads[i].content = "unreadable"
    /\ loads' = [loads EXCEPT ![i] = readerOnerror(loads[i])]
    /\ op' = "error"
    /\ UNCHANGED <<imageData, imageCanvas, imageCtx>>
    /\ ImageFrame

ImgLoad(i) ==
    /\ i \in 1..Len(loads)
    /\ loads[i].stage = "decoding"
    /\ loads[i].content \in Decodable
    /\ imageCanvas' = loadedImage(loads[i].content).imageCanvas
    /\ imageCtx' = loadedImage(loads[i].content).imageCtx
    /\ imageData' = loadedImage(loads[i].content).imageData
    /\ loads' = [loads EXCEPT ![i] = imgOnload(loads[i])]
    /\ op' = "resolved"
    /\ ImageFrame

ImgError(i) ==
    /\ i \in 1..Len(loads)
    /\ loads[i].stage = "decoding"
    /\ loads[i].content \notin Decodable
    /\ imageCanvas' = imageAfterError(engineImage).imageCanvas
    /\ imageCtx' = imageAfterError(engineImage).imageCtx
    /\ imageData' = imageAfterError(engineImage).imageData
    /\ loads' = [loads EXCEPT ![i] = imgOnerror(loads[i])]
    /\ op' = IF imgOnerror(loads[i]).promise = "rejected" THEN "rejected" ELSE "error"
    /\ ImageFrame

\* the events the browser owes to the i-th call
BrowserEvent(i) == ReaderLoad(i) \/ ReaderError(i) \/ ImgLoad(i) \/ ImgError(i)

NextImage ==
    \/ LoadImageDataCall
    \/ LoadImageFromUrlCall
    \/ \E i \in 1..MaxLoads : ReaderLoad(i)
    \/ \E i \in 1..MaxLoads : ReaderError(i)
    \/ \E i \in 1..MaxLoads : ImgLoad(i)
    \/ \E i \in 1..MaxLoads : ImgError(i)
    \/ CallClearImage

SpecImage == InitImage /\ [][NextImage]_vars

\* the browser fires every event it owes
FairSpecImage == SpecImage /\ \A i \in 1..MaxLoads : WF_vars(BrowserEvent(i))

-----------------------------------------------------------------------------
(* sampleImageBrightness called directly, between loads and clears *)

SampleCoords == {R(-1, 2), Num(0), R(1, 2), Num(1)}
SampleScales == {Num(0), R(1, 2), Num(1)}

SampleCall ==
    /\ \E u \in SampleCoords, v \in SampleCoords, scale \in SampleScales :
          sampled' = [u |-> u, v |-> v, imageScale |-> scale,
                      result |-> sampleImageBrightness(engineImage, u, v, scale)]
    /\ op' = "sample"
    /\ UNCHANGED <<params, installationMode, imageScale, ledEnabled, ribProfiles,
                   ceilingProfilesArr, imageData, imageCanvas, imageCtx,
                   callParams, dxf, csv, pricing, priced, loads,
                   panelVars, serverVars, pendingAtClear>>

NextSample == SampleCall \/ CallLoadImage \/ CallClearImage

SpecSample == InitImage /\ [][NextSample]_vars

-----------------------------------------------------------------------------
(* Claims about the generator and the DXF exporter (SpecGen) *)

\* C1: for count >= 1, controlPoints >= 2, displayResolution >= 2 and every
\* installation mode, generateRibProfiles returns exactly params.count
\* profiles, and the one at position i has index i.
C1_OneProfilePerIndexInOrder ==
    op # "init" =>
        /\ Len(ribProfiles) = callParams.count
        /\ \A k \in 1..Len(ribProfiles) : ribProfiles[k].index = k - 1

C1_Witness ==
    /\ op = "generate"
    /\ callParams.count >= 2
    /\ installationMode = "both"
    /\ Len(ribProfiles) = callParams.count
    /\ ribProfiles[2].index = 1

swapDepths(p) == [p EXCEPT !.minDepth = p.maxDepth, !.maxDepth = p.minDepth]

SameOutput(res) ==
    /\ ribProfiles = res.ribProfiles
    /\ ceilingProfilesArr = res.ceilingProfilesArr

\* C2: generateRibProfiles called with minDepth and maxDepth exchanged returns
\* the same profiles and control points, the mode, the imageScale and the
\* image being the same.
C2_SwapInvariant ==
    op = "generate" =>
        SameOutput(generateRibProfiles(engineImage, swapDepths(callParams),
                                       installationMode, imageScale))

C2_Witness ==
    /\ op = "generate"
    /\ RLt(callParams.maxDepth, callParams.minDepth)
    /\ \E k \in 1..Len(ribProfiles) :
          \E i, j \in 1..Len(ribProfiles[k].controlPoints) :
              ribProfiles[k].controlPoints[i].x # ribProfiles[k].controlPoints[j].x

\* C3: after generateRibProfiles returns, the params object it was given has
\* minDepth <= maxDepth, holds the same two depth values as before, and every
\* other field is as it was.
C3_ParamsNormalisedInPlace ==
    op = "generate" =>
        /\ RLe(params.minDepth, params.maxDepth)
        /\ {params.minDepth, params.maxDepth} = {callParams.minDepth, callParams.maxDepth}
        /\ [params EXCEPT !.minDepth = callParams.minDepth,
                          !.maxDepth = callParams.maxDepth] = callParams

C3_Witness ==
    /\ op = "generate"
    /\ callParams.minDepth = Num(12) /\ callParams.maxDepth = Num(4)
    /\ params.minDepth = Num(4) /\ params.maxDepth = Num(12)

entityTypes(doc) == [k \in 1..Len(doc) |-> doc[k].e]

\* the entity names the claim lists for one rib with an n-point profile
ribTypes(n) ==
    <<"LINE", "POLYLINE">> \o [k \in 1..n |-> "VERTEX"] \o <<"SEQEND", "LINE", "LINE">>

\* where the group of the rib at position k starts in the document
RECURSIVE groupStart(_, _)
groupStart(ribs, k) ==
    IF k = 1 THEN Len(dxfHeader) + 1
    ELSE groupStart(ribs, k - 1) + Len(ribs[k - 1].profile) + 5

\* C10: between the start of the ENTITIES section and ENDSEC/EOF the document
\* holds, per rib and in array order, one LINE, one POLYLINE, one VERTEX per
\* profile point in profile order, one SEQEND and two LINEs.
C10_EntitySequence ==
    op = "dxf" =>
        /\ entityTypes(dxf) =
              entityTypes(dxfHeader)
              \o Flatten([k \in 1..Len(ribProfiles) |-> ribTypes(Len(ribProfiles[k].profile))])
              \o <<"ENDSEC", "EOF">>
        /\ dxf[Len(dxfHeader)] = [e |-> "SECTION", name |-> "ENTITIES"]
        /\ \A k \in 1..Len(ribProfiles) :
              \A j \in 1..Len(ribProfiles[k].profile) :
                  LET v == dxf[groupStart(ribProfiles, k) + 1 + j]
                  IN  /\ v.rib = k - 1
                      /\ v.y1 = fix6(ribProfiles[k].profile[j].y)
                      /\ v.x1 = fix6(RAdd(RMul(Num(k - 1), dxfSpacing(params)),
                                          ribProfiles[k].profile[j].x))

C10_Witness ==
    /\ op = "dxf"
    /\ Len(ribProfiles) = 1
    /\ Len(ribProfiles[1].profile) = 3
    /\ entityTypes(SubSeq(dxf, Len(dxfHeader) + 1, Len(dxf) - 2)) =
          <<"LINE", "POLYLINE", "VERTEX", "VERTEX", "VERTEX", "SEQEND", "LINE", "LINE">>

\* |a - b| <= c
RWithin(a, b, c) == RLe(RSub(a, b), c) /\ RLe(RSub(b, a), c)

\* the distance along the path between two samples of the full profile:
\* totalPath / totalRes
sampleStep(p) ==
    RDiv(RAdd(p.height, p.ceilingRun),
         Num(RRound(RMul(Num(p.displayResolution),
                         RDiv(RAdd(p.height, p.ceilingRun), p.height)))))

\* C11: in mode both, for every rib, the wall profile's last position is
\* within one sample step of height, and the re-based ceiling profile's first
\* position is within one sample step of 0.
C11_CornerContinuity ==
    (op = "generate" /\ installationMode = "both") =>
        \A k \in 1..Len(ribProfiles) :
            LET wall    == ribProfiles[k].profile
                ceiling == ceilingProfilesArr[k]
            IN  /\ Len(wall) > 0
                /\ RWithin(wall[Len(wall)].y, params.height, sampleStep(params))
                /\ Len(ceiling) > 0
                /\ RWithin(ceiling[1].y, Num(0), sampleStep(params))

\* no point of the array has a NaN coordinate
noNaN(points) ==
    \A k \in 1..Len(points) : ~isNaN(points[k].x) /\ ~isNaN(points[k].y)

\* C12: a generation with controlPoints < 2 or count < 1 does not raise and
\* produces no NaN position.
C12_DegenerateCountsHandled ==
    (/\ op \in {"generate", "threw"}
     /\ (callParams.controlPoints < 2 \/ callParams.count < 1))
    => /\ op = "generate"
       /\ \A k \in 1..Len(ribProfiles) :
              /\ noNaN(ribProfiles[k].profile)
              /\ noNaN(ribProfiles[k].controlPoints)

\* the depth the two rules give for rib ribIndex at path fraction t
claimDepth(image, p, ribIndex, t, scale) ==
    IF image.imageData = NULL
    THEN LET wave == waveFunction(t, p.frequency, p.waveType, RMul(Num(ribIndex), p.phase))
         IN  RAdd(p.minDepth,
                  RMul(RDiv(RAdd(wave, Num(1)), Num(2)), RSub(p.maxDepth, p.minDepth)))
    ELSE LET u == IF p.count = 1 THEN R(1, 2) ELSE R(ribIndex, p.count - 1)
         IN  RAdd(p.minDepth,
                  RMul(sampleImageBrightness(image, u, t, scale),
                       RSub(p.maxDepth, p.minDepth)))

\* the length of the path the control points of a rib are spread over
pathLength(p, mode) == IF mode = "both" THEN RAdd(p.height, p.ceilingRun) ELSE p.height

\* C17: with no image active every control point depth is
\* minDepth + (wave + 1)/2 * (maxDepth - minDepth), wave from waveFunction with
\* phaseShift = ribIndex * phase (in turns); with an image active it is
\* minDepth + brightness * (maxDepth - minDepth), sampled at
\* u = ribIndex/(count - 1), or 0.5 when count = 1.
C17_DepthRule ==
    op = "generate" =>
        \A k \in 1..Len(ribProfiles) :
            \A j \in 1..Len(ribProfiles[k].controlPoints) :
                LET point == ribProfiles[k].controlPoints[j]
                    t == RDiv(point.y, pathLength(params, installationMode))
                IN  point.x = claimDepth(engineImage, params, k - 1, t, imageScale)

C17_Witness ==
    /\ op = "generate"
    /\ hasImageData
    /\ installationMode = "both"
    /\ Len(ribProfiles) = 2
    /\ params.minDepth # params.maxDepth
    /\ Len(ribProfiles[2].controlPoints) >= 2
    /\ ribProfiles[2].controlPoints[1].x =
          RAdd(params.minDepth,
               RMul(sampleImageBrightness(engineImage, Num(1), Num(0), imageScale),
                    RSub(params.maxDepth, params.minDepth)))
    /\ sampleImageBrightness(engineImage, Num(1), Num(0), imageScale) = R(1, 5)

\* C19: for controlPoints >= 2 and height > 0 generateControlPoints returns
\* exactly controlPoints points, at strictly increasing, evenly spaced
\* positions, the first at 0 and the last at height.
C19_ControlPointPositions ==
    (op = "generate" /\ installationMode # "both") =>
        \A k \in 1..Len(ribProfiles) :
            LET points == ribProfiles[k].controlPoints
                n == params.controlPoints
            IN  /\ Len(points) = n
                /\ points[1].y = Num(0)
                /\ points[n].y = params.height
                /\ \A j \in 1..(n - 1) :
                      /\ RLt(points[j].y, points[j + 1].y)
                      /\ RSub(points[j + 1].y, points[j].y) = RDiv(params.height, Num(n - 1))

C19_Witness ==
    /\ op = "generate"
    /\ installationMode = "wall"
    /\ params.controlPoints = 3
    /\ Len(ribProfiles) = 2
    /\ Len(ribProfiles[2].controlPoints) = 3
    /\ ribProfiles[2].controlPoints[2].y = RDiv(params.height, Num(2))

-----------------------------------------------------------------------------
(* Claims about exportDXF on short profiles (SpecDXF) *)

\* the entities of a document that belong to the rib with this index
ribEntitiesIn(doc, ribIndex) ==
    {k \in 1..Len(doc) :
        /\ doc[k].e \in {"LINE", "POLYLINE", "VERTEX", "SEQEND"}
        /\ doc[k].rib = ribIndex}

\* C13: exportDXF skips every rib whose profile has fewer than two points,
\* the empty profile included: it raises nothing, writes no LINE, POLYLINE,
\* VERTEX or SEQEND for such a rib, and still returns the complete document
\* (header first, ENDSEC and EOF last).
C13_ShortProfilesSkipped ==
    (/\ op \in {"dxf", "threw"}
     /\ \E k \in 1..Len(ribProfiles) : Len(ribProfiles[k].profile) < 2)
    => /\ op = "dxf"
       /\ SubSeq(dxf, 1, Len(dxfHeader)) = dxfHeader
       /\ SubSeq(dxf, Len(dxf) - 1, Len(dxf)) = dxfTrailer
       /\ \A k \in 1..Len(ribProfiles) :
             Len(ribProfiles[k].profile) < 2 => ribEntitiesIn(dxf, k - 1) = {}

-----------------------------------------------------------------------------
(* Claims about the calculator (SpecPricing) *)

\* C6: count = 40, height = 144, maxDepth = 12, mode wall, LEDs enabled gives
\* ribPrice = 21600, ledPrice = 14400 and totalPrice = 36000.
C6_BudgetScenario ==
    (/\ op = "pricing"
     /\ params.count = 40 /\ params.height = Num(144) /\ params.maxDepth = Num(12)
     /\ installationMode = "wall" /\ ledEnabled)
    => /\ pricing.ribPrice = Num(21600)
       /\ pricing.ledPrice = Num(14400)
       /\ pricing.totalPrice = Num(36000)

C6_Witness ==
    /\ op = "pricing"
    /\ params.count = 40 /\ params.height = Num(144) /\ params.maxDepth = Num(12)
    /\ installationMode = "wall" /\ ledEnabled
    /\ pricing.totalPrice = Num(36000)

\* the claim's rib length: height, plus ceilingRun only in mode both
claimRibLength ==
    IF installationMode = "both" THEN RAdd(params.height, params.ceilingRun)
    ELSE params.height

\* C7: ribPrice = (ribLength x maxDepth x count / 144) x 45,
\* ledPrice = (ribLength / 12) x count x 30, and totalPrice is ribPrice plus
\* ledPrice when LEDs are enabled and ribPrice alone when they are not.
C7_PriceFormulas ==
    op = "pricing" =>
        /\ pricing.ribLength = claimRibLength
        /\ pricing.ribPrice =
              RMul(RDiv(RMul(RMul(claimRibLength, params.maxDepth), Num(params.count)),
                        Num(144)), Num(45))
        /\ pricing.ledPrice =
              RMul(RMul(RDiv(claimRibLength, Num(12)), Num(params.count)), Num(30))
        /\ pricing.totalPrice =
              IF ledEnabled THEN RAdd(pricing.ribPrice, pricing.ledPrice)
              ELSE pricing.ribPrice

C7_Witness ==
    /\ op = "pricing"
    /\ installationMode = "both"
    /\ ~ledEnabled
    /\ pricing.ribLength = RAdd(params.height, params.ceilingRun)
    /\ pricing.ledPrice # Num(0)
    /\ pricing.totalPrice = pricing.ribPrice

\* floor(a/b) and ceil(a/b) of integers, b > 0
floorDiv(a, b) == a \div b
ceilDiv(a, b) == -((-a) \div b)

\* C8: ribsPerSheet = floor(48 / maxDepth), sectionsPerRib = ceil(ribLength / 144),
\* sheetsNeeded = ceil(count x sectionsPerRib / max(ribsPerSheet, 1)) and
\* sheetTotalCost = sheetsNeeded x 1800.
C8_SheetFormulas ==
    op = "pricing" =>
        /\ pricing.ribsPerSheet = floorDiv(48 * params.maxDepth.d, params.maxDepth.n)
        /\ pricing.sectionsPerRib = ceilDiv(claimRibLength.n, 144 * claimRibLength.d)
        /\ pricing.sheetsNeeded =
              ceilDiv(params.count * pricing.sectionsPerRib,
                      IF pricing.ribsPerSheet > 1 THEN pricing.ribsPerSheet ELSE 1)
        /\ pricing.sheetTotalCost = pricing.sheetsNeeded * 1800

C8_Witness ==
    /\ op = "pricing"
    /\ params.count = 40
    /\ pricing.sectionsPerRib = 2
    /\ pricing.ribsPerSheet = 9
    /\ pricing.sheetsNeeded = 9
    /\ pricing.sheetTotalCost = 16200

-----------------------------------------------------------------------------
(* Claims about the application (Spec) and about call sequences (SpecCalls) *)

\* the x coordinates the document holds for rib i
ribXs(doc, i) ==
    LET own == {k \in 1..Len(doc) : "rib" \in DOMAIN doc[k] /\ doc[k].rib = i}
    IN  {doc[k].x1 : k \in {j \in own : "x1" \in DOMAIN doc[j]}}
        \cup {doc[k].x2 : k \in {j \in own : "x2" \in DOMAIN doc[j]}}

\* the claim's wall-line offset of rib i: i x (maxDepth x 1.2)
wallLineOffset(i) == RMul(Num(i), RMul(params.maxDepth, R(6, 5)))

\* C4: in the document exportDXF makes from the profiles of a generation pass
\* and the application's current params, rib i's wall line is at
\* i x (maxDepth x 1.2), and every x coordinate of rib i is smaller than the
\* wall-line offset of rib i+1.
C4_NoOverlap ==
    op = "dxf" =>
        /\ \A i \in 0..(Len(ribProfiles) - 1) :
              \E k \in 1..Len(dxf) :
                  /\ dxf[k].e = "LINE" /\ dxf[k].rib = i
                  /\ dxf[k].x1 = fix6(wallLineOffset(i))
                  /\ dxf[k].x2 = dxf[k].x1
        /\ \A i \in 0..(Len(ribProfiles) - 2) :
              \A x \in ribXs(dxf, i) : RLt(x, fix6(wallLineOffset(i + 1)))

\* C5: calculatePricing with minDepth and maxDepth exchanged returns the same
\* surface area, ribPrice, ribsPerSheet, sheetsNeeded and totalPrice.
C5_PricingDepthOrderFree ==
    op = "pricing" =>
        LET other == calculatePricing(swapDepths(params), installationMode, ledEnabled)
        IN  /\ pricing.totalSurfaceAreaSqFt = other.totalSurfaceAreaSqFt
            /\ pricing.ribPrice = other.ribPrice
            /\ pricing.ribsPerSheet = other.ribsPerSheet
            /\ pricing.sheetsNeeded = other.sheetsNeeded
            /\ pricing.totalPrice = other.totalPrice

-----------------------------------------------------------------------------
(* Claims about image loading (SpecImage, FairSpecImage) *)

\* a step in which some promise becomes rejected
newlyRejected ==
    \E i \in 1..Len(loads') :
        /\ loads'[i].promise = "rejected"
        /\ (i > Len(loads) \/ loads[i].promise # "rejected")

\* C14: a failed load installs nothing: the step that rejects a promise
\* (loadImageData on a non-image file, the error event of loadImageFromUrl's
\* image) and the step that makes a call leave imageData, imageCanvas and
\* imageCtx as they were, whether there was no image or an active one.
C14_FailedLoadKeepsImage ==
    [][(newlyRejected \/ Len(loads') > Len(loads))
       => UNCHANGED <<imageData, imageCanvas, imageCtx>>]_vars

C14_Witness ==
    /\ op = "rejected"
    /\ Len(loads) = 2
    /\ loads[1].fn = "loadImageData" /\ loads[1].promise = "resolved"
    /\ loads[2].fn = "loadImageFromUrl" /\ loads[2].promise = "rejected"
    /\ imageData = imageDataOf(loads[1].content)
    /\ imageCanvas = imageCanvasOf(loads[1].content)
    /\ imageCtx = imageCtxOf(loads[1].content)

settled(i) == loads[i].promise \in {"resolved", "rejected"}

\* C15: every call of loadImageData or loadImageFromUrl eventually settles:
\* once the browser has fired the events it owes, the promise is resolved or
\* rejected, whatever the file or URL holds.
C15_EveryLoadSettles ==
    \A i \in 1..MaxLoads : (Len(loads) >= i) ~> (Len(loads) >= i /\ settled(i))

\* the images the three references of an image state point to
refsOf(image) ==
    (IF image.imageData = NULL THEN {} ELSE {image.imageData.src})
    \cup (IF image.imageCanvas = NULL THEN {} ELSE {image.imageCanvas.src})
    \cup (IF image.imageCtx = NULL THEN {} ELSE {image.imageCtx.canvas})

\* none of the three references is set, or all three are and to one image
oneOrNone(image) ==
    \/ image.imageData = NULL /\ image.imageCanvas = NULL /\ image.imageCtx = NULL
    \/ /\ image.imageData # NULL /\ image.imageCanvas # NULL /\ image.imageCtx # NULL
       /\ Cardinality(refsOf(image)) = 1

\* C16: at most one decoded image is active in every state; the step that
\* resolves a load leaves imageData, imageCanvas and imageCtx all referring to
\* that load's image, and after clearImageData hasImageData() is false.
C16_OneActiveImage ==
    /\ []oneOrNone(engineImage)
    /\ [][/\ \A i \in 1..Len(loads) :
               (loads[i].promise = "pending" /\ loads'[i].promise = "resolved")
               => refsOf(engineImage') = {loads[i].content}
          /\ (op' = "clear" => ~hasImageData')]_vars

C16_Witness ==
    /\ op = "resolved"
    /\ Len(loads) = 2
    /\ loads[1].promise = "resolved" /\ loads[2].promise = "resolved"
    /\ loads[1].content # loads[2].content
    /\ refsOf(engineImage) = {loads[2].content}


\* C18: with no image loaded sampleImageBrightness(u, v, imageScale) returns
\* exactly 0.5, for every u, v and imageScale (a scale of 0 included), and
\* raises nothing.
C18_NoImageBrightnessHalf ==
    (op = "sample" /\ ~hasImageData) => sampled.result = R(1, 2)

C18_Witness ==
    /\ op = "sample"
    /\ ~hasImageData
    /\ sampled.imageScale = Num(0)
    /\ sampled.u = R(-1, 2)
    /\ sampled.result = R(1, 2)


-----------------------------------------------------------------------------
(* Claims about exportCSV (SpecCSV) *)

\* the values of the lines of a report that carry this label
csvValues(doc, label) ==
    [k \in {j \in 1..Len(doc) : doc[j].row = "value" /\ doc[j].label = label}
        |-> doc[k].value]

\* the report has exactly one line with this label, and it shows this value
csvShows(doc, label, value) ==
    /\ Cardinality(DOMAIN csvValues(doc, label)) = 1
    /\ \A k \in DOMAIN csvValues(doc, label) : csvValues(doc, label)[k] = value

\* the rib indexes of the data lines of a report, in the order of the lines
RECURSIVE csvRibIndexes(_)
csvRibIndexes(doc) ==
    IF Len(doc) = 0 THEN << >>
    ELSE (IF doc[1].row = "rib" THEN << doc[1].index >> ELSE << >>)
         \o csvRibIndexes(Tail(doc))

\* what the claim says of the lines written in every case
csvAgrees ==
    /\ csvShows(csv, "Total Surface Area", toFixed(pricing.totalSurfaceAreaSqFt, 2))
    /\ csvShows(csv, "Rib Total", toFixed(pricing.ribPrice, 2))
    /\ csvShows(csv, "Grand Total", toFixed(pricing.totalPrice, 2))
    /\ csvRibIndexes(csv) = [k \in 1..params.count |-> k - 1]

\* C20: the pricing block of exportCSV agrees with calculatePricing on the
\* same arguments: Total Surface Area, Rib Total and Grand Total are the
\* 2-decimal renderings of totalSurfaceAreaSqFt, ribPrice and totalPrice, and
\* there is one data line per rib index 0..count-1; the LED Total line is
\* written when ledEnabled is true, and is then the 2-decimal rendering of
\* ledPrice, and is absent otherwise.
C20_CsvAgreesWithPricing ==
    (op = "csv" /\ pricing # NULL) =>
        /\ csvAgrees
        /\ IF ledEnabled
           THEN csvShows(csv, "LED Total", toFixed(pricing.ledPrice, 2))
           ELSE DOMAIN csvValues(csv, "LED Total") = {}

C20_Witness ==
    /\ op = "csv"
    /\ pricing # NULL
    /\ ledEnabled
    /\ installationMode = "both"
    /\ params.count = 2
    /\ csvRibIndexes(csv) = <<0, 1>>
    /\ csvShows(csv, "LED Total", Num(750))

\* C20 as stated: the LED Total line is there, and shows ledPrice, whatever
\* ledEnabled is.
C20_LedTotalAlwaysShown ==
    (op = "csv" /\ pricing # NULL) =>
        /\ csvAgrees
        /\ csvShows(csv, "LED Total", toFixed(pricing.ledPrice, 2))

-----------------------------------------------------------------------------
(* Claims about the reported sheet count (SpecPricing) *)

\* C27: the reported sheet count suffices for the reported yield and is the
\* smallest that does: sheetsNeeded * ribsPerSheet >= count * sectionsPerRib,
\* and (sheetsNeeded - 1) * ribsPerSheet < count * sectionsPerRib, for
\* maxDepth > 0, count >= 1 and ribLength > 0.
C27_SheetsSuffice ==
    (/\ op = "pricing"
     /\ RLt(Num(0), callParams.maxDepth)
     /\ callParams.count >= 1
     /\ RLt(Num(0), pricing.ribLength))
    => /\ pricing.sheetsNeeded * pricing.ribsPerSheet
             >= callParams.count * pricing.sectionsPerRib
       /\ (pricing.sheetsNeeded - 1) * pricing.ribsPerSheet
             < callParams.count * pricing.sectionsPerRib

-----------------------------------------------------------------------------
(* The generator called in installation mode 'both' on wall heights and     *)
(* ceiling runs of the sliders' ranges (height 40..144, ceilingRun 24..144) *)

Corners == {<<Num(144), Num(24)>>, <<Num(144), Num(96)>>, <<Num(100), Num(50)>>}

CornerParams ==
    {p \in [height: {r[1] : r \in Corners}, minDepth: {Num(4)},
            maxDepth: {Num(12)}, thickness: {R(1, 2)}, count: 1..MaxCount,
            spacing: {Num(7)}, frequency: {Num(2)}, phase: {R(1, 4)},
            waveType: 0..2, controlPoints: 2..MaxControlPoints,
            displayResolution: 2..MaxResolution,
            color: {"#ffffff"}, ceilingRun: {r[2] : r \in Corners}] :
        <<p.height, p.ceilingRun>> \in Corners}

InitCorner ==
    /\ params \in CornerParams
    /\ installationMode = "both"
    /\ \E src \in {"none", "A"} :
          /\ imageData = IF src = "none" THEN NULL ELSE imageDataOf(src)
          /\ imageCanvas = IF src = "none" THEN NULL ELSE imageCanvasOf(src)
          /\ imageCtx = IF src = "none" THEN NULL ELSE imageCtxOf(src)
          /\ imageScale = IF src = "none" THEN Num(1) ELSE R(1, 2)
    /\ ledEnabled = FALSE
    /\ ribProfiles = << >>
    /\ ceilingProfilesArr = << >>
    /\ callParams = NULL
    /\ dxf = NULL
    /\ pricing = NULL
    /\ priced = NULL
    /\ loads = << >>
    /\ sampled = NULL
    /\ csv = NULL
    /\ PanelsAtLoad
    /\ NoServer
    /\ pendingAtClear = {}
    /\ op = "init"

NextCorner == GenerateCall

SpecCorner == InitCorner /\ [][NextCorner]_vars

(* Claims about the corner split (SpecCorner) *)

\* the number of samples of the full L-path profile of the call:
\* evaluateSplineCurve returns resolution + 1 points
fullLength ==
    RRound(RMul(Num(callParams.displayResolution),
                RDiv(RAdd(callParams.height, callParams.ceilingRun),
                     callParams.height))) + 1

\* C28: in installation mode 'both', for every height > 0 and ceilingRun > 0,
\* the wall profile and the ceiling profile of each rib share exactly the
\* split sample: the ceiling profile is never empty, len(wall) + len(ceiling)
\* = len(full) + 1, and the wall profile's last depth equals the ceiling
\* profile's first depth.
C28_SplitSampleShared ==
    (/\ op = "generate"
     /\ installationMode = "both"
     /\ RLt(Num(0), callParams.height)
     /\ RLt(Num(0), callParams.ceilingRun))
    => \A k \in 1..Len(ribProfiles) :
          /\ Len(ceilingProfilesArr[k]) >= 1
          /\ Len(ribProfiles[k].profile) + Len(ceilingProfilesArr[k])
                = fullLength + 1
          /\ ribProfiles[k].profile[Len(ribProfiles[k].profile)].x
                = ceilingProfilesArr[k][1].x

\* the same statement away from the rounding case: it holds whenever the
\* split index falls inside the full profile
C28_SplitInsideShared ==
    (/\ op = "generate"
     /\ installationMode = "both"
     /\ RRound(RMul(RDiv(callParams.height,
                         RAdd(callParams.height, callParams.ceilingRun)),
                    Num(fullLength))) < fullLength)
    => \A k \in 1..Len(ribProfiles) :
          /\ Len(ceilingProfilesArr[k]) >= 1
          /\ Len(ribProfiles[k].profile) + Len(ceilingProfilesArr[k])
                = fullLength + 1
          /\ ribProfiles[k].profile[Len(ribProfiles[k].profile)].x
                = ceilingProfilesArr[k][1].x

-----------------------------------------------------------------------------
(* Claims about the application's rib array (Spec) *)

\* a rib as generateRibProfiles returns it, without what the effect adds
generatorRib(rib) ==
    [index |-> rib.index, profile |-> rib.profile,
     controlPoints |-> rib.controlPoints, height |-> rib.height,
     thickness |-> rib.thickness]

\* what generateRibProfiles returns for the application's current state
currentGeneration ==
    generateRibProfiles(engineImage, params, installationMode, imageScale)

\* C21: no stale profiles: once a change to a RibParams field, the
\* installation mode, imageScale or the active image has been processed, the
\* ribProfiles the application holds and hands to the exporters are
\* generateRibProfiles of the current params, mode, imageScale and image.
C21_NoStaleProfiles ==
    op # "init"
    => /\ Len(ribProfiles) = Len(currentGeneration.ribProfiles)
       /\ \A k \in 1..Len(ribProfiles) :
             /\ generatorRib(ribProfiles[k]) = currentGeneration.ribProfiles[k]
             /\ installationMode = "both"
                => ribProfiles[k].ceilingProfile
                      = currentGeneration.ceilingProfilesArr[k]

\* an image is active, the scale and a depth were changed, mode both, and the
\* profiles are about to be exported
C21_Witness ==
    /\ op = "dxf"
    /\ hasImageData
    /\ imageScale = R(1, 2)
    /\ installationMode = "both"
    /\ params.maxDepth # DEFAULT_PARAMS.maxDepth
    /\ Len(ribProfiles) = params.count

-----------------------------------------------------------------------------
(* The chat endpoint and the chat panel's request to it: api/chat.js with   *)
(* api/config.js, or server.js with its two routes                          *)

\* the application and the engine, which the server does not touch
engineVars == <<params, installationMode, imageScale, ledEnabled, ribProfiles,
                ceilingProfilesArr, imageData, imageCanvas, imageCtx,
                callParams, dxf, csv, pricing, priced, loads, sampled,
                pendingAtClear>>

\* JavaScript's undefined where a string is expected: a variable of the
\* environment that is not set, a header or a body field that is absent
undefined == "<undefined>"

\* JavaScript's truthiness of a string or undefined
truthy(v) == v # undefined /\ v # ""

\* JavaScript's a || b
orElse(a, b) == IF truthy(a) THEN a ELSE b

Servers == {"api/chat.js", "server.js"}

EnvKeys == {undefined, "", "sk-env"}

HeaderKeys == {undefined, "", "sk-user"}

Messages == {undefined, "", "hi"}

\* the response of /api/config: hasAnthropicKey
hasAnthropicKey(e) == truthy(e.ANTHROPIC_API_KEY)

\* a faulty variant of apiKeyOf: the header takes priority over the variable
apiKeyHeaderFirst(e, r) ==
    orElse(r.headers, e.ANTHROPIC_API_KEY)

\* api/chat.js: process.env.ANTHROPIC_API_KEY || req.headers["x-api-key"]
apiKeyOf(e, r) ==
    orElse(e.ANTHROPIC_API_KEY, r.headers)

\* a response sent before the model is called
refused(status) == [status |-> status, modelCalls |-> << >>]

\* client.messages.create was called with apiKey: res.json on success,
\* res.status(500) from the catch block
answered(key, ok) ==
    [status |-> IF ok THEN 200 ELSE 500, modelCalls |-> <<key>>]

\* the handler of api/chat.js; ok is whether the model call succeeds
apiChatHandler(e, r, ok) ==
    IF r.method # "POST" THEN refused(405)
    ELSE IF ~truthy(apiKeyOf(e, r)) THEN refused(401)
    ELSE IF ~truthy(r.body.message) THEN refused(400)
    ELSE answered(apiKeyOf(e, r), ok)

\* the app.post('/api/chat') route of server.js
serverChatHandler(e, r, ok) ==
    IF ~truthy(r.headers) THEN refused(401)
    ELSE IF ~truthy(r.body.message) THEN refused(400)
    ELSE answered(r.headers, ok)

InitServer ==
    /\ params = DEFAULT_PARAMS
    /\ installationMode = "wall"
    /\ ledEnabled = FALSE
    /\ imageScale = Num(1)
    /\ imageData = NULL /\ imageCanvas = NULL /\ imageCtx = NULL
    /\ ribProfiles = << >>
    /\ ceilingProfilesArr = << >>
    /\ callParams = NULL
    /\ dxf = NULL
    /\ pricing = NULL
    /\ priced = NULL
    /\ loads = << >>
    /\ sampled = NULL
    /\ csv = NULL
    /\ showAdvanced = FALSE
    /\ imagePreviewSrc = NULL
    /\ input = "hi"
    /\ loading = FALSE
    /\ requests = << >>
    /\ apiKey \in {"", "sk-user"}
    /\ serverHasAnthropicKey = FALSE
    /\ server \in Servers
    /\ env \in [ANTHROPIC_API_KEY: EnvKeys]
    /\ httpReq = NULL
    /\ httpRes = NULL
    /\ modelCalls = << >>
    /\ pendingAtClear = {}
    /\ op = "init"

\* ChatPanel's effect on mount: fetch('/api/config'), then
\* setServerHasAnthropicKey(true) if the server reports a key
fetchConfig ==
    /\ op = "init"
    /\ serverHasAnthropicKey' = hasAnthropicKey(env)
    /\ op' = "config"
    /\ UNCHANGED <<engineVars, showAdvanced, imagePreviewSrc, input, loading,
                   requests, apiKey, serverVars>>

\* handleKeyChange: the user enters or removes a key
handleKeyChange ==
    /\ op # "init"
    /\ httpReq = NULL \/ httpRes # NULL
    /\ \E val \in {"", "sk-user"} :
          /\ val # apiKey
          /\ apiKey' = val
    /\ op' = "key"
    /\ UNCHANGED <<engineVars, showAdvanced, imagePreviewSrc, input, loading,
                   requests, serverHasAnthropicKey, serverVars>>

\* sendMessage up to its fetch('/api/chat'): the request the chat panel sends
sendMessageFetch ==
    /\ op # "init"
    /\ httpReq = NULL \/ httpRes # NULL
    /\ truthy(input)
    /\ truthy(apiKey) \/ serverHasAnthropicKey
    /\ httpReq' = [method  |-> "POST",
                   headers |-> IF truthy(apiKey) THEN apiKey ELSE undefined,
                   body    |-> [message |-> input],
                   from    |-> "ChatPanel"]
    /\ httpRes' = NULL
    /\ modelCalls' = << >>
    /\ op' = "fetch"
    /\ UNCHANGED <<engineVars, panelVars, server, env>>

\* a request from any other client; server.js routes only POST to its handler
otherRequest ==
    /\ httpReq = NULL \/ httpRes # NULL
    /\ \E method \in {"GET", "POST"}, key \in HeaderKeys, message \in Messages :
          /\ server = "server.js" => method = "POST"
          /\ httpReq' = [method |-> method, headers |-> key,
                         body |-> [message |-> message], from |-> "other"]
    /\ httpRes' = NULL
    /\ modelCalls' = << >>
    /\ op' = "fetch"
    /\ UNCHANGED <<engineVars, panelVars, server, env>>

\* the endpoint handles the request it received
handleChat ==
    /\ httpReq # NULL
    /\ httpRes = NULL
    /\ \E ok \in BOOLEAN :
          LET out == IF server = "api/chat.js"
                     THEN apiChatHandler(env, httpReq, ok)
                     ELSE serverChatHandler(env, httpReq, ok)
          IN  /\ httpRes' = [status |-> out.status]
              /\ modelCalls' = out.modelCalls
    /\ op' = "handled"
    /\ UNCHANGED <<engineVars, panelVars, server, env, httpReq>>

NextServer ==
    \/ fetchConfig
    \/ handleKeyChange
    \/ sendMessageFetch
    \/ otherRequest
    \/ handleChat

SpecServer == InitServer /\ [][NextServer]_vars

(* Claims about the chat endpoint (SpecServer) *)

\* the key the handler of api/chat.js is to use: the environment variable if
\* it is set, the x-api-key header otherwise
availableKey ==
    IF truthy(env.ANTHROPIC_API_KEY) THEN env.ANTHROPIC_API_KEY
    ELSE httpReq.headers

C30_ConfiguredKeyAccepted ==
    (/\ httpRes # NULL
     /\ httpReq.from = "ChatPanel"
     /\ httpReq.headers = undefined
     /\ hasAnthropicKey(env))
    => httpRes.status # 401

\* the same for api/chat.js alone, where it holds
C30_ApiChatAccepts ==
    (/\ server = "api/chat.js"
     /\ httpRes # NULL
     /\ httpReq.from = "ChatPanel"
     /\ httpReq.headers = undefined
     /\ hasAnthropicKey(env))
    => httpRes.status # 401

-----------------------------------------------------------------------------
(* Claims about overlapping loads and clears (SpecImage) *)

\* the calls whose promise is resolved, by their position in the order of
\* the requests
resolvedLoads == {i \in 1..Len(loads) : loads[i].promise = "resolved"}

\* the last of them in the order of the requests
lastRequested == CHOOSE i \in resolvedLoads : \A j \in resolvedLoads : j <= i

\* the i-th call's promise is resolved in this step
resolvesNow(i) == loads[i].promise = "pending" /\ loads'[i].promise = "resolved"

\* C23: when image loads overlap, the image active after all of them have
\* completed is the one requested last (no clearImageData having fallen
\* between a request and its completion).
C23_LastRequestedWins ==
    (/\ inProgress(loads) = {}
     /\ pendingAtClear = {}
     /\ hasImageData
     /\ resolvedLoads # {})
    => refsOf(engineImage) = {loads[lastRequested].content}

\* C24: after clearImageData is called hasImageData() stays false until a load
\* requested after the clear completes successfully, and a load requested
\* before the clear never installs its image.
C24_ClearCancelsPending ==
    [][/\ (~hasImageData /\ hasImageData')
          => \E i \in (1..Len(loads)) \ pendingAtClear : resolvesNow(i)
       /\ \A i \in pendingAtClear : ~resolvesNow(i)]_vars

\* the part of C24 that holds: clearImageData leaves no image active, and an
\* image becomes active only in a step that resolves some load
C24_ClearedUntilSomeLoad ==
    [][/\ (op' = "clear" => ~hasImageData')
       /\ (~hasImageData /\ hasImageData')
          => \E i \in 1..Len(loads) : resolvesNow(i)]_vars

-----------------------------------------------------------------------------
(* The control panel and the pattern gallery: uploads through ControlPanel, *)
(* pattern loads through ChatPanel, Clear Image, and opening and closing    *)
(* the advanced controls, which mounts and unmounts ControlPanel            *)

\* the files dropped on the upload area: an image and a text file
PanelFiles == {f \in Files : f.content \in {"A", "text"}}

\* the patterns clicked in the gallery: one that is served, one that is not
PanelUrls == {"B", "missing"}

\* the data URL loadImageData resolves with
dataUrlOf(l) == [dataUrl |-> l.content]

\* handleImageUpload's call of loadImageData, noted with the ControlPanel that
\* made it: mounted until that panel is unmounted
uploadCall(file) == loadImageDataCall(file) @@ [mounted |-> TRUE]

\* ControlPanel is unmounted: its state is gone, and setImagePreviewSrc of
\* its pending uploads will find no component
unmounted(ls) ==
    [i \in 1..Len(ls) |->
        IF ls[i].fn = "loadImageData" THEN [ls[i] EXCEPT !.mounted = FALSE]
        ELSE ls[i]]

\* imagePreviewSrc after the continuation of the call whose image has loaded:
\* handleImageUpload sets it, loadPattern does not
previewAfter(l, preview) ==
    IF l.fn = "loadImageData" /\ l.mounted THEN dataUrlOf(l) ELSE preview

PanelFrame == UNCHANGED <<input, loading, requests, apiKey,
                          serverHasAnthropicKey, serverVars>>

\* the engine and the application untouched: no render
NoRender == UNCHANGED <<params, installationMode, imageScale, ledEnabled,
                        ribProfiles, ceilingProfilesArr, imageData,
                        imageCanvas, imageCtx, callParams, dxf, csv, pricing,
                        priced, sampled>>

\* the Advanced Controls button: onShowAdvancedChange(!showAdvanced)
toggleAdvanced ==
    /\ op # "init"
    /\ showAdvanced' = ~showAdvanced
    /\ imagePreviewSrc' = IF showAdvanced THEN NULL ELSE imagePreviewSrc
    /\ loads' = IF showAdvanced THEN Array(unmounted(loads)) ELSE loads
    /\ op' = "advanced"
    /\ UNCHANGED pendingAtClear
    /\ NoRender
    /\ PanelFrame

\* ControlPanel's handleImageUpload up to its await
handleImageUpload ==
    /\ op # "init"
    /\ showAdvanced
    /\ Len(loads) < MaxLoads
    /\ \E file \in PanelFiles :
          /\ loads' = Append(loads, uploadCall(file))
          /\ op' = IF uploadCall(file).promise = "rejected"
                   THEN "alert" ELSE "called"
    /\ UNCHANGED <<showAdvanced, imagePreviewSrc, pendingAtClear>>
    /\ NoRender
    /\ PanelFrame

\* ChatPanel's handlePatternClick: loadPattern up to its await
handlePatternClick ==
    /\ op # "init"
    /\ Len(loads) < MaxLoads
    /\ \E url \in PanelUrls : loads' = Append(loads, loadImageFromUrlCall(url))
    /\ op' = "called"
    /\ UNCHANGED <<showAdvanced, imagePreviewSrc, pendingAtClear>>
    /\ NoRender
    /\ PanelFrame

\* reader.onload of the i-th call
uploadRead(i) ==
    /\ i \in 1..Len(loads)
    /\ loads[i].stage = "reading"
    /\ loads' = [loads EXCEPT ![i] = readerOnload(loads[i])]
    /\ op' = "read"
    /\ UNCHANGED <<showAdvanced, imagePreviewSrc, pendingAtClear>>
    /\ NoRender
    /\ PanelFrame

\* img.onload of the i-th call, and the continuation of its caller:
\* setImagePreviewSrc(dataUrl) in handleImageUpload, then
\* onImageModeChange(true) in both
imageArrived(i) ==
    /\ i \in 1..Len(loads)
    /\ loads[i].stage = "decoding"
    /\ loads[i].content \in Decodable
    /\ loads' = [loads EXCEPT ![i] = imgOnload(loads[i])]
    /\ imagePreviewSrc' = previewAfter(loads[i], imagePreviewSrc)
    /\ Commit(params, installationMode, ledEnabled,
              loadedImage(loads[i].content), imageScale)
    /\ UNCHANGED <<showAdvanced, pendingAtClear>>
    /\ PanelFrame

\* the error event of the i-th call's image: loadPattern's catch is silent
imageError(i) ==
    /\ i \in 1..Len(loads)
    /\ loads[i].stage = "decoding"
    /\ loads[i].content \notin Decodable
    /\ loads' = [loads EXCEPT ![i] = imgOnerror(loads[i])]
    /\ op' = "rejected"
    /\ UNCHANGED <<showAdvanced, imagePreviewSrc, pendingAtClear>>
    /\ NoRender
    /\ PanelFrame

\* the Clear Image button, which ControlPanel renders when imagePreviewSrc is
\* set: handleClearImage
clearImageClick ==
    /\ showAdvanced
    /\ imagePreviewSrc # NULL
    /\ imagePreviewSrc' = NULL
    /\ pendingAtClear' = inProgress(loads)
    /\ Commit(params, installationMode, ledEnabled, clearedImage, imageScale)
    /\ UNCHANGED <<showAdvanced, loads>>
    /\ PanelFrame

NextPanels ==
    \/ Mount
    \/ toggleAdvanced
    \/ handleImageUpload
    \/ handlePatternClick
    \/ \E i \in 1..MaxLoads : uploadRead(i)
    \/ \E i \in 1..MaxLoads : imageArrived(i)
    \/ \E i \in 1..MaxLoads : imageError(i)
    \/ clearImageClick

SpecPanels == Init /\ [][NextPanels]_vars

(* Claims about the control panel's image state (SpecPanels) *)

\* C29: whenever an image is active in the engine the control panel shows it
\* as loaded and offers Clear Image: imagePreviewSrc is non-null if and only
\* if hasImageData() is true, after any sequence of uploads, pattern loads,
\* clears and openings and closings of the advanced controls.
C29_PreviewIffImage ==
    (imagePreviewSrc # NULL) <=> hasImageData

\* the part of C29 that holds: Clear Image is offered only over an image the
\* engine holds or held, never before any load has resolved
C29_PreviewOnlyAfterUpload ==
    (imagePreviewSrc # NULL)
    => \E i \in 1..Len(loads) :
          loads[i].fn = "loadImageData" /\ loads[i].promise = "resolved"

-----------------------------------------------------------------------------
(* The chat panel: typing, sending by the Send button or the Enter key, the *)
(* response of /api/chat applied by applyParams, and the depth slider moved *)
(* meanwhile                                                                *)

MaxRequests == 2

\* what the user types into the chat box
Inputs == {"", " ", "hi"}

\* String.prototype.trim on these
trim(s) == IF s = " " THEN "" ELSE s

\* the responses of the assistant: its params, none of them a pattern
ChatResponses == {a \in AiParams : a.count = DEFAULT_PARAMS.count}

\* the RibParams fields a response names
namedIn(aiParams) ==
    {"count"} \cup (aiParams.keys \cap DOMAIN DEFAULT_PARAMS)

\* a variant of sendMessage's closure: applyParams spreads the params of the
\* render in which the response arrives
closureParamsCurrent(p, current) == current

\* the params applyParams spreads: those of the render that created the
\* sendMessage that is running, not those of the render current at the response
closureParams(p, current) == p

InitChat ==
    /\ params = DEFAULT_PARAMS
    /\ installationMode = "wall"
    /\ ledEnabled = FALSE
    /\ imageScale = Num(1)
    /\ imageData = NULL /\ imageCanvas = NULL /\ imageCtx = NULL
    /\ ribProfiles = << >>
    /\ ceilingProfilesArr = << >>
    /\ callParams = NULL
    /\ dxf = NULL
    /\ pricing = NULL
    /\ priced = NULL
    /\ loads = << >>
    /\ sampled = NULL
    /\ csv = NULL
    /\ showAdvanced = FALSE
    /\ imagePreviewSrc = NULL
    /\ input = ""
    /\ loading = FALSE
    /\ requests = << >>
    /\ apiKey = "sk-user"
    /\ serverHasAnthropicKey = FALSE
    /\ NoServer
    /\ pendingAtClear = {}
    /\ op = "init"

ChatFrame == UNCHANGED <<showAdvanced, imagePreviewSrc, apiKey,
                         serverHasAnthropicKey, serverVars, loads,
                         pendingAtClear>>

\* the textarea's onChange: setInput(e.target.value)
typeInput ==
    /\ op # "init"
    /\ \E text \in Inputs :
          /\ text # input
          /\ input' = text
    /\ op' = "typed"
    /\ UNCHANGED <<loading, requests>>
    /\ NoRender
    /\ ChatFrame

\* sendMessage up to its await of fetch: the guards, then setInput(''),
\* setLoading(true) and the request, which carries the closure's params
sendMessage ==
    /\ op # "init"
    /\ Len(requests) < MaxRequests
    /\ trim(input) # ""
    /\ apiKey # "" \/ serverHasAnthropicKey
    /\ requests' = Append(requests, [params |-> params, status |-> "inflight",
                                     aiParams |-> NULL])
    /\ input' = ""
    /\ loading' = TRUE
    /\ op' = "sent"
    /\ NoRender
    /\ ChatFrame

\* the Send button: disabled={loading || !input.trim()}
sendClick ==
    /\ ~loading
    /\ sendMessage

\* handleKeyDown on Enter without Shift: sendMessage(), whatever loading is
handleKeyDown ==
    /\ loading \in BOOLEAN
    /\ sendMessage

\* ControlPanel's Max Depth slider: updateParam('maxDepth', value)
updateParam ==
    /\ op # "init"
    /\ showAdvanced
    /\ \E value \in Depths :
          /\ value # params.maxDepth
          /\ Commit([params EXCEPT !.maxDepth = value], installationMode,
                    ledEnabled, engineImage, imageScale)
    /\ UNCHANGED <<input, loading, requests>>
    /\ ChatFrame

\* the response of the i-th request arrives with res.ok: applyParams(data.params),
\* then finally setLoading(false)
chatResponse(i) ==
    /\ i \in 1..Len(requests)
    /\ requests[i].status = "inflight"
    /\ \E aiParams \in ChatResponses :
          /\ Commit(appliedParams(closureParams(requests[i].params, params),
                                  aiParams),
                    IF "installationMode" \in aiParams.keys
                    THEN aiParams.installationMode ELSE installationMode,
                    ledEnabled, engineImage, imageScale)
          /\ requests' = [requests EXCEPT ![i] =
                            [params |-> NULL, status |-> "applied",
                             aiParams |-> aiParams]]
    /\ loading' = FALSE
    /\ UNCHANGED input
    /\ ChatFrame

\* the i-th request fails (no response, or !res.ok): setError, then finally
\* setLoading(false)
chatFailure(i) ==
    /\ i \in 1..Len(requests)
    /\ requests[i].status = "inflight"
    /\ requests' = [requests EXCEPT ![i] =
                       [params |-> NULL, status |-> "failed", aiParams |-> NULL]]
    /\ loading' = FALSE
    /\ op' = "failed"
    /\ UNCHANGED input
    /\ NoRender
    /\ ChatFrame

\* the Advanced Controls button while chatting
chatToggleAdvanced ==
    /\ toggleAdvanced
    /\ loads = << >>

NextChat ==
    \/ Mount
    \/ typeInput
    \/ sendClick
    \/ handleKeyDown
    \/ updateParam
    \/ chatToggleAdvanced
    \/ \E i \in 1..MaxRequests : chatResponse(i)
    \/ \E i \in 1..MaxRequests : chatFailure(i)

SpecChat == InitChat /\ [][NextChat]_vars

(* Claims about the chat panel (SpecChat) *)

\* the i-th request's response is applied in this step
appliedNow(i) ==
    requests[i].status = "inflight" /\ requests'[i].status = "applied"

\* C25: when the assistant's response is applied, every RibParams field the
\* response does not name keeps the application's current value: a parameter
\* the user changed while the request was in flight is not reverted.
C25_UnnamedFieldsKept ==
    [][\A i \in 1..Len(requests) :
          appliedNow(i)
          => \A f \in (DOMAIN DEFAULT_PARAMS) \ namedIn(requests'[i].aiParams) :
                params'[f] = params[f]]_vars

\* the part of C25 that holds: the fields the response names take its values
C25_NamedFieldsApplied ==
    [][\A i \in 1..Len(requests) :
          appliedNow(i)
          => /\ params'.count = requests'[i].aiParams.count
             /\ "maxDepth" \in requests'[i].aiParams.keys
                => params'.maxDepth = requests'[i].aiParams.maxDepth]_vars

\* the requests in flight
inFlight == {i \in 1..Len(requests) : requests[i].status = "inflight"}

\* C26: loading is true in every state where a chat request is in flight and
\* false once none is, and at most one chat request is in flight at a time,
\* whether sent by the Send button or by the Enter key.
C26_LoadingIffInFlight ==
    /\ loading <=> inFlight # {}
    /\ Cardinality(inFlight) <= 1

\* the part of C26 that holds: with no request in flight loading is false
C26_IdleNotLoading ==
    inFlight = {} => ~loading

====
